---- MODULE Spec2Model ----
(***************************************************************************)
(* The Soil VM interpreter (src/soil.c) and the Soil assembler             *)
(* (src/assemble.c) as state machines: Spec runs the interpreter on a code *)
(* section, AsmSpec runs the assembler on a source text.                   *)
(*                                                                         *)
(* Widths are scaled so that the state space is finite and fits TLC's      *)
(* integers: Word (uint64_t) is WordBits wide, int is IntBits wide and the *)
(* arena holds MEMORY_SIZE bytes, keeping MEMORY_SIZE < 2^(IntBits-1) <    *)
(* 2^WordBits as in the source (0x1000000 < 2^31 < 2^64).  A Word still    *)
(* occupies 8 bytes, little-endian, in the arena and in the byte code.     *)
(*                                                                         *)
(* Undefined behaviour of the C code (an access outside an object, a       *)
(* division by zero) is a choice between the host killing the process with *)
(* a signal (state "killed") and the access going through: a byte read     *)
(* outside its object is some byte of Garbage, a byte written outside its  *)
(* object lands in host memory (host_corrupt).                             *)
(***************************************************************************)
EXTENDS Integers, Sequences, FiniteSets, TLC

WordBits == 12
IntBits == 8
MEMORY_SIZE == 16
CALL_STACK_SIZE == 1024
NUM_SYSCALLS == 256

WordMod == 2^WordBits
IntMod == 2^IntBits
Words == 0..(WordMod - 1)
Bytes == 0..255
Garbage == {0, 255}

\* register slots: Word reg[8]; // sp, st, a, b, c, d, e, f
SP == 0
ST == 1
REGA == 2
REGB == 3
REGC == 4
REGD == 5

VARIABLES
  byte_code,        \* the code section, a sequence of bytes (index i is byte_code[i+1])
  reg,              \* Word reg[8]
  ip,               \* Word ip
  mem,              \* Byte* mem, the arena [0, MEMORY_SIZE) (address a is mem[a+1])
  call_stack,       \* Word call_stack[1024], up to the highest slot written so far
                    \* (slot i is call_stack[i+1]; the slots above are still zero)
  call_stack_len,   \* Word call_stack_len
  syscall_handlers, \* void (*syscall_handlers[256])() (entry n is syscall_handlers[n+1])
  open_files,       \* the FILE* values the host has open
  state,            \* "running", "trapped" (dump_and_panic), "halted" (exit), "killed" (signal)
  status,           \* <<>> while running, <<exit status>> once the process has exited
  opcode,           \* the opcode byte the last step dispatched on (-1: none yet)
  operand,          \* byte_code[ip + 1] as the last step decoded it (-1: not read)
  handler,          \* the syscall handler the last step invoked ("" if none)
  code_touched,     \* indices of byte_code the last step read
  mem_touched,      \* indices of mem the last step read or wrote
  reg_touched,      \* indices of reg the last step read or wrote
  cs_touched,       \* indices of call_stack the last step read or wrote
  host_corrupt      \* some step wrote outside the object it indexed

\* the assembler (src/assemble.c)
VARIABLES
  recipe,           \* Byte* recipe, the source text, a sequence of characters
                    \* (recipe[i] is recipe[i+1]; recipe[recipe_len] is the NUL main appends)
  cursor,           \* int cursor
  current,          \* char current
  output,           \* Bytes output (byte i is output[i+1])
  last_label,       \* Str last_label
  labels,           \* Labels labels: the entries [label, pos], in definition order
  patches,          \* Patches patches: the items [label, where], in reference order
  start_of_section, \* Pos start_of_section
  num_labels_in_byte_code_section,
  pointer_to_memory_section_len,
  asm_state,        \* where main is: "code", "data" (the two loops), "done" (exit(0)),
                    \* "failed" (panic: exit(1)); "idle" when the assembler does not run
  message,          \* the message of the panic ("" if none)
  outfile,          \* the bytes written to the .soil file (<<>> if it was not written)
  asm_step,         \* what the last step of main did
  globalized        \* the calls of globalize_label in the last step: [label, last, ok, global]

asm_vars == <<recipe, cursor, current, output, last_label, labels, patches,
              start_of_section, num_labels_in_byte_code_section,
              pointer_to_memory_section_len, asm_state, message, outfile, asm_step,
              globalized>>

\* the assembler is not running
AsmIdle ==
  /\ recipe = <<>> /\ cursor = 0 /\ current = "" /\ output = <<>>
  /\ last_label = <<>> /\ labels = <<>> /\ patches = <<>>
  /\ start_of_section = 0 /\ num_labels_in_byte_code_section = 0
  /\ pointer_to_memory_section_len = 0
  /\ asm_state = "idle" /\ message = "" /\ outfile = <<>> /\ asm_step = ""
  /\ globalized = <<>>

\* the readers of a binary: init_vm of the interpreter (src/soil.c) and
\* parse_binary, dump_binary of the disassembler (src/disassemble.c)
VARIABLES
  bin,              \* Byte* bin, the bytes of the file (byte i is bin[i+1])
  reader,           \* "vm": the interpreter reads bin, "dis": the disassembler ("": none)
  bin_cursor,       \* int cursor of init_vm and of parse_binary
  loaded_labels,    \* Labels labels of the reader: the entries [pos, label, len]
  load_state,       \* "idle", "magic", "sections" (the loop of the reader), "loaded",
                    \* "dumping" (the loop of dump_binary), "dumped", "failed" (panic:
                    \* exit(1)), "killed" (signal)
  load_message,     \* the message of the panic ("" if none)
  load_step,        \* what the last step of the reader did
  dump_cursor,      \* int cursor of dump_binary
  dump_line         \* the last line dump_binary printed: [at, cmd, reg1, reg2]

load_vars == <<bin, reader, bin_cursor, loaded_labels, load_state, load_message,
               load_step, dump_cursor, dump_line>>

\* no reader runs
LoadIdle ==
  /\ bin = <<>> /\ reader = "" /\ bin_cursor = 0 /\ loaded_labels = <<>>
  /\ load_state = "idle" /\ load_message = "" /\ load_step = ""
  /\ dump_cursor = 0 /\ dump_line = <<>>

vars == <<byte_code, reg, ip, mem, call_stack, call_stack_len, syscall_handlers,
          open_files, state, status, opcode, operand, handler, code_touched,
          mem_touched, reg_touched, cs_touched, host_corrupt>>

machine == <<reg, ip, mem, call_stack, call_stack_len, open_files>>

\* char** global_argv (argv[0] and the binary's path), int global_argc
global_argv == << <<115, 111>>, <<97, 98, 99>> >>
global_argc == Len(global_argv)

\* the FILE* values fopen can return besides NULL
FilePtrs == {WordMod - 32}
\* the bytes a file read can yield
FileBytes == {66}

------------------------------------------------------------------------------
\* Words and bytes

RECURSIVE ByteOf(_, _)
ByteOf(w, k) == IF k = 0 THEN w % 256 ELSE ByteOf(w \div 256, k - 1)

\* the 8 bytes of a Word in memory, least significant first
WordBytes(w) ==
  <<ByteOf(w, 0), ByteOf(w, 1), ByteOf(w, 2), ByteOf(w, 3),
    ByteOf(w, 4), ByteOf(w, 5), ByteOf(w, 6), ByteOf(w, 7)>>

RECURSIVE LEFrom(_, _)
LEFrom(bs, k) == IF k > Len(bs) THEN 0 ELSE (bs[k] + 256 * LEFrom(bs, k + 1)) % WordMod

\* *(Word*)p on 8 bytes
LEWord(bs) == LEFrom(bs, 1)

\* (int64_t)w < 0
IsNegative(w) == w >= WordMod \div 2

\* conversion of a Word to int (exit(REGA), int i = SP, ...)
IntOf(w) == LET v == w % IntMod IN IF v >= IntMod \div 2 THEN v - IntMod ELSE v

Add(a, b) == (a + b) % WordMod
Sub(a, b) == (a - b + WordMod) % WordMod
Mul(a, b) == (a * b) % WordMod

RECURSIVE BitOp(_, _, _, _)
BitOp(f, a, b, n) ==
  IF n = 0 THEN 0
  ELSE f[a % 2][b % 2] + 2 * BitOp(f, a \div 2, b \div 2, n - 1)
And(a, b) == BitOp([x \in 0..1 |-> [y \in 0..1 |-> IF x = 1 /\ y = 1 THEN 1 ELSE 0]], a, b, WordBits)
Or(a, b) == BitOp([x \in 0..1 |-> [y \in 0..1 |-> IF x = 1 \/ y = 1 THEN 1 ELSE 0]], a, b, WordBits)
Xor(a, b) == BitOp([x \in 0..1 |-> [y \in 0..1 |-> IF x # y THEN 1 ELSE 0]], a, b, WordBits)
Not(a) == WordMod - 1 - a

------------------------------------------------------------------------------
\* Reads and writes of the interpreter's objects.  g is the byte every read
\* outside an object yields in this step.

bytecode_len == Len(byte_code)

CodeAt(i, g) == IF i < bytecode_len THEN byte_code[i + 1] ELSE g
CodeWordAt(i, g) == LEWord([k \in 1..8 |-> CodeAt((i + k - 1) % WordMod, g)])
CodeRange(i, n) == {(i + k) % WordMod : k \in 0..(n - 1)}

MemAt(a, g) == IF a < MEMORY_SIZE THEN mem[a + 1] ELSE g
MemWordAt(a, g) == LEWord([k \in 1..8 |-> MemAt((a + k - 1) % WordMod, g)])
MemRange(a, n) == {(a + k) % WordMod : k \in 0..(n - 1)}
\* mem with the n bytes bs written at a; the bytes that fall outside are not in mem
MemWrite(a, bs) ==
  [i \in 1..MEMORY_SIZE |->
     IF \E k \in 1..Len(bs) : (a + k - 1) % WordMod = i - 1
     THEN bs[CHOOSE k \in 1..Len(bs) : (a + k - 1) % WordMod = i - 1]
     ELSE mem[i]]

\* call_stack[i] for i < 1024, and call_stack with call_stack[i] = v
StackAt(i) == IF i < Len(call_stack) THEN call_stack[i + 1] ELSE 0
StackWrite(i, v) ==
  [k \in 1..(IF i < Len(call_stack) THEN Len(call_stack) ELSE i + 1) |->
     IF k = i + 1 THEN v ELSE IF k <= Len(call_stack) THEN call_stack[k] ELSE 0]

RegAt(r, g) == IF r < 8 THEN reg[r] ELSE LEWord([k \in 1..8 |-> g])
RegWrite(r, v) == IF r < 8 THEN [reg EXCEPT ![r] = v] ELSE reg

InArena(s) == s \subseteq 0..(MEMORY_SIZE - 1)
InCode(s) == s \subseteq 0..(bytecode_len - 1)
InRegs(s) == s \subseteq 0..7
InStack(s) == s \subseteq 0..(CALL_STACK_SIZE - 1)

------------------------------------------------------------------------------
\* The ways a dispatch step ends

Trace(opc, b, h, ct, mt, rt, cst) ==
  /\ opcode' = opc
  /\ operand' = b
  /\ handler' = h
  /\ code_touched' = ct
  /\ mem_touched' = mt
  /\ reg_touched' = rt
  /\ cs_touched' = cst

\* executing the decoded instruction leaves an object: the build decides what happens
UB(mt, rt, cst) == ~InArena(mt) \/ ~InRegs(rt) \/ ~InStack(cst)

\* dump_and_panic: the message, the stack dump, the registers, the memory dump,
\* then exit(1).  The stack dump reads call_stack[0 .. call_stack_len - 1]: with a
\* depth beyond the array (after ret on the empty stack or call on the full one)
\* it reads outside call_stack and the host may end the process before exit(1)
DumpAndPanicExit == 1
dump_and_panic ==
  /\ \/ state' = "trapped" /\ status' = <<DumpAndPanicExit>>
     \/ call_stack_len > CALL_STACK_SIZE /\ state' = "killed" /\ status' = <<>>
  /\ UNCHANGED <<machine, host_corrupt>>

\* the host ends the process with a signal (SIGSEGV, SIGFPE): no exit status
Killed ==
  /\ state' = "killed"
  /\ status' = <<>>
  /\ UNCHANGED <<machine, host_corrupt>>

\* the step completes; hc: it wrote outside an object
Continue(regN, ipN, memN, hc) ==
  /\ reg' = regN
  /\ ip' = ipN
  /\ mem' = memN
  /\ host_corrupt' = (host_corrupt \/ hc)
  /\ state' = "running"
  /\ status' = <<>>

Running == state = "running"
Fixed == UNCHANGED <<byte_code, syscall_handlers, asm_vars, load_vars>>

\* REG1 and REG2 of the operand byte b
R1(b) == b % 16
R2(b) == b \div 16

------------------------------------------------------------------------------
\* run_single: one action per case of its switch (cases that differ only in the
\* width or the operator share an action)

\* case 0x00: dump_and_panic("halted"); ip += 1; break; // nop
Nop ==
  /\ Running /\ Fixed
  /\ \E g \in Garbage :
       /\ CodeAt(ip, g) = 0
       /\ Trace(0, -1, "", {ip}, {}, {}, {})
       /\ dump_and_panic

\* case 0xe0: dump_and_panic("panicked"); return; // panic
Panic ==
  /\ Running /\ Fixed
  /\ \E g \in Garbage :
       /\ CodeAt(ip, g) = 224
       /\ Trace(224, -1, "", {ip}, {}, {}, {})
       /\ dump_and_panic

\* case 0xd0: REG1 = REG2; ip += 2; break; // move
Move ==
  /\ Running /\ Fixed
  /\ \E g \in Garbage :
       LET b == CodeAt(Add(ip, 1), g)
           ct == CodeRange(ip, 2)
           rt == {R1(b), R2(b)}
       IN /\ CodeAt(ip, g) = 208
          /\ Trace(208, b, "", ct, {}, rt, {})
          /\ \/ /\ Continue(RegWrite(R1(b), RegAt(R2(b), g)), Add(ip, 2), mem, R1(b) >= 8)
                /\ UNCHANGED <<call_stack, call_stack_len, open_files>>
             \/ UB({}, rt, {}) /\ Killed

\* case 0xd1: REG1 = *(Word*)(byte_code + ip + 2); ip += 10; break; // movei
MoveI ==
  /\ Running /\ Fixed
  /\ \E g \in Garbage :
       LET b == CodeAt(Add(ip, 1), g)
           ct == CodeRange(ip, 10)
           rt == {R1(b)}
       IN /\ CodeAt(ip, g) = 209
          /\ Trace(209, b, "", ct, {}, rt, {})
          /\ \/ /\ Continue(RegWrite(R1(b), CodeWordAt(Add(ip, 2), g)), Add(ip, 10), mem,
                            R1(b) >= 8)
                /\ UNCHANGED <<call_stack, call_stack_len, open_files>>
             \/ UB({}, rt, {}) /\ Killed

\* case 0xd2: REG1 = byte_code[ip + 2]; ip += 3; break; // moveib
MoveIB ==
  /\ Running /\ Fixed
  /\ \E g \in Garbage :
       LET b == CodeAt(Add(ip, 1), g)
           ct == CodeRange(ip, 3)
           rt == {R1(b)}
       IN /\ CodeAt(ip, g) = 210
          /\ Trace(210, b, "", ct, {}, rt, {})
          /\ \/ /\ Continue(RegWrite(R1(b), CodeAt(Add(ip, 2), g)), Add(ip, 3), mem,
                            R1(b) >= 8)
                /\ UNCHANGED <<call_stack, call_stack_len, open_files>>
             \/ UB({}, rt, {}) /\ Killed

\* the bounds check of load, loadb, store and storeb:
\* if (REG >= MEMORY_SIZE) dump_and_panic("invalid ...")
InvalidAddress(a, width) == a >= MEMORY_SIZE

\* case 0xd3: load; case 0xd4: loadb.  REG1 = *(Word*)(mem + REG2) or mem[REG2]
Load ==
  /\ Running /\ Fixed
  /\ \E g \in Garbage, opc \in {211, 212} :
       LET b == CodeAt(Add(ip, 1), g)
           ct == CodeRange(ip, 2)
           a == RegAt(R2(b), g)
           width == IF opc = 211 THEN 8 ELSE 1
           mt == MemRange(a, width)
           v == IF opc = 211 THEN MemWordAt(a, g) ELSE MemAt(a, g)
       IN /\ CodeAt(ip, g) = opc
          /\ IF InvalidAddress(a, width)
             THEN /\ Trace(opc, b, "", ct, {}, {R2(b)}, {})
                  /\ \/ dump_and_panic
                     \/ UB({}, {R2(b)}, {}) /\ Killed
             ELSE /\ Trace(opc, b, "", ct, mt, {R1(b), R2(b)}, {})
                  /\ \/ /\ Continue(RegWrite(R1(b), v), Add(ip, 2), mem, R1(b) >= 8)
                        /\ UNCHANGED <<call_stack, call_stack_len, open_files>>
                     \/ UB(mt, {R1(b), R2(b)}, {}) /\ Killed

\* case 0xd5: store; case 0xd6: storeb.  *(Word*)(mem + REG1) = REG2 or mem[REG1] = REG2
Store ==
  /\ Running /\ Fixed
  /\ \E g \in Garbage, opc \in {213, 214} :
       LET b == CodeAt(Add(ip, 1), g)
           ct == CodeRange(ip, 2)
           a == RegAt(R1(b), g)
           width == IF opc = 213 THEN 8 ELSE 1
           mt == MemRange(a, width)
           v == RegAt(R2(b), g)
           bs == IF opc = 213 THEN WordBytes(v) ELSE <<v % 256>>
       IN /\ CodeAt(ip, g) = opc
          /\ IF InvalidAddress(a, width)
             THEN /\ Trace(opc, b, "", ct, {}, {R1(b)}, {})
                  /\ \/ dump_and_panic
                     \/ UB({}, {R1(b)}, {}) /\ Killed
             ELSE /\ Trace(opc, b, "", ct, mt, {R1(b), R2(b)}, {})
                  /\ \/ /\ Continue(reg, Add(ip, 2), MemWrite(a, bs), ~InArena(mt))
                        /\ UNCHANGED <<call_stack, call_stack_len, open_files>>
                     \/ UB(mt, {R1(b), R2(b)}, {}) /\ Killed

\* case 0xd7: SP -= 8; *(Word*)(mem + SP) = REG1; ip += 2; break; // push
Push ==
  /\ Running /\ Fixed
  /\ \E g \in Garbage :
       LET b == CodeAt(Add(ip, 1), g)
           ct == CodeRange(ip, 2)
           sp == Sub(reg[SP], 8)
           regN == [reg EXCEPT ![SP] = sp]
           v == IF R1(b) < 8 THEN regN[R1(b)] ELSE RegAt(R1(b), g)
           mt == MemRange(sp, 8)
           rt == {SP, R1(b)}
       IN /\ CodeAt(ip, g) = 215
          /\ Trace(215, b, "", ct, mt, rt, {})
          /\ \/ /\ Continue(regN, Add(ip, 2), MemWrite(sp, WordBytes(v)), ~InArena(mt))
                /\ UNCHANGED <<call_stack, call_stack_len, open_files>>
             \/ UB(mt, rt, {}) /\ Killed

\* case 0xd8: REG1 = *(Word*)(mem + SP); SP += 8; ip += 2; break; // pop
Pop ==
  /\ Running /\ Fixed
  /\ \E g \in Garbage :
       LET b == CodeAt(Add(ip, 1), g)
           ct == CodeRange(ip, 2)
           mt == MemRange(reg[SP], 8)
           reg1 == RegWrite(R1(b), MemWordAt(reg[SP], g))
           regN == [reg1 EXCEPT ![SP] = Add(reg1[SP], 8)]
           rt == {SP, R1(b)}
       IN /\ CodeAt(ip, g) = 216
          /\ Trace(216, b, "", ct, mt, rt, {})
          /\ \/ /\ Continue(regN, Add(ip, 2), mem, R1(b) >= 8)
                /\ UNCHANGED <<call_stack, call_stack_len, open_files>>
             \/ UB(mt, rt, {}) /\ Killed

\* case 0xf0: ip = *(Word*)(byte_code + ip + 1); break; // jump
Jump ==
  /\ Running /\ Fixed
  /\ \E g \in Garbage :
       LET ct == CodeRange(ip, 9)
       IN /\ CodeAt(ip, g) = 240
          /\ Trace(240, -1, "", ct, {}, {}, {})
          /\ Continue(reg, CodeWordAt(Add(ip, 1), g), mem, FALSE)
          /\ UNCHANGED <<call_stack, call_stack_len, open_files>>

\* case 0xf1: if (ST != 0) ip = *(Word*)(byte_code + ip + 1); else ip += 9; // cjump
CJump ==
  /\ Running /\ Fixed
  /\ \E g \in Garbage :
       LET taken == reg[ST] # 0
           ct == IF taken THEN CodeRange(ip, 9) ELSE {ip}
       IN /\ CodeAt(ip, g) = 241
          /\ Trace(241, -1, "", ct, {}, {ST}, {})
          /\ Continue(reg, IF taken THEN CodeWordAt(Add(ip, 1), g) ELSE Add(ip, 9), mem, FALSE)
          /\ UNCHANGED <<call_stack, call_stack_len, open_files>>

\* case 0xf2: call_stack[call_stack_len] = ip + 9; call_stack_len++;
\*            ip = *(Word*)(byte_code + ip + 1); // call
Call ==
  /\ Running /\ Fixed
  /\ \E g \in Garbage :
       LET ct == CodeRange(ip, 9)
           return_target == Add(ip, 9)
           cst == {call_stack_len}
       IN /\ CodeAt(ip, g) = 242
          /\ Trace(242, -1, "", ct, {}, {}, cst)
          /\ \/ /\ Continue(reg, CodeWordAt(Add(ip, 1), g), mem, ~InStack(cst))
                /\ call_stack' = IF InStack(cst)
                                 THEN StackWrite(call_stack_len, return_target)
                                 ELSE call_stack
                /\ call_stack_len' = Add(call_stack_len, 1)
                /\ UNCHANGED open_files
             \/ UB({}, {}, cst) /\ Killed

\* case 0xf3: call_stack_len--; ip = call_stack[call_stack_len]; // ret
Ret ==
  /\ Running /\ Fixed
  /\ \E g \in Garbage :
       LET len == Sub(call_stack_len, 1)
           cst == {len}
           target == IF InStack(cst) THEN StackAt(len) ELSE LEWord([k \in 1..8 |-> g])
       IN /\ CodeAt(ip, g) = 243
          /\ Trace(243, -1, "", {ip}, {}, {}, cst)
          /\ \/ /\ Continue(reg, target, mem, FALSE)
                /\ call_stack_len' = len
                /\ UNCHANGED <<call_stack, open_files>>
             \/ UB({}, {}, cst) /\ Killed

\* REG1 op= REG2 of cases 0xa0..0xa2 and 0xb0..0xb2
AluResult(opc, x, y) ==
  CASE opc = 160 -> Add(x, y)
    [] opc = 161 -> Sub(x, y)
    [] opc = 162 -> Mul(x, y)
    [] opc = 176 -> And(x, y)
    [] opc = 177 -> Or(x, y)
    [] opc = 178 -> Xor(x, y)

\* case 0xa0: add; 0xa1: sub; 0xa2: mul; 0xb0: and; 0xb1: or; 0xb2: xor
Alu ==
  /\ Running /\ Fixed
  /\ \E g \in Garbage, opc \in {160, 161, 162, 176, 177, 178} :
       LET b == CodeAt(Add(ip, 1), g)
           ct == CodeRange(ip, 2)
           rt == {R1(b), R2(b)}
       IN /\ CodeAt(ip, g) = opc
          /\ Trace(opc, b, "", ct, {}, rt, {})
          /\ \/ /\ Continue(RegWrite(R1(b), AluResult(opc, RegAt(R1(b), g), RegAt(R2(b), g))),
                            Add(ip, 2), mem, R1(b) >= 8)
                /\ UNCHANGED <<call_stack, call_stack_len, open_files>>
             \/ UB({}, rt, {}) /\ Killed

\* the values REG1 / REG2 (0xa3) and REG1 % REG2 (0xa4) can have: a division by zero
\* is undefined (SIGFPE on x86, a result without a trap on other hosts)
DivResults(opc, x, y, g) ==
  IF y = 0 THEN {LEWord([k \in 1..8 |-> g])}
  ELSE IF opc = 163 THEN {x \div y} ELSE {x % y}

\* case 0xa3: REG1 /= REG2; ip += 2; break; // div
\* case 0xa4: REG1 %= REG2; ip += 2; break; // rem
Div ==
  /\ Running /\ Fixed
  /\ \E g \in Garbage, opc \in {163, 164} :
       LET b == CodeAt(Add(ip, 1), g)
           ct == CodeRange(ip, 2)
           rt == {R1(b), R2(b)}
           y == RegAt(R2(b), g)
       IN /\ CodeAt(ip, g) = opc
          /\ Trace(opc, b, "", ct, {}, rt, {})
          /\ \/ /\ \E v \in DivResults(opc, RegAt(R1(b), g), y, g) :
                     Continue(RegWrite(R1(b), v), Add(ip, 2), mem, R1(b) >= 8)
                /\ UNCHANGED <<call_stack, call_stack_len, open_files>>
             \/ (y = 0 \/ UB({}, rt, {})) /\ Killed

\* case 0xb3: REG1 = ~REG1; ip += 2; break; // not
NotOp ==
  /\ Running /\ Fixed
  /\ \E g \in Garbage :
       LET b == CodeAt(Add(ip, 1), g)
           ct == CodeRange(ip, 2)
           rt == {R1(b)}
       IN /\ CodeAt(ip, g) = 179
          /\ Trace(179, b, "", ct, {}, rt, {})
          /\ \/ /\ Continue(RegWrite(R1(b), Not(RegAt(R1(b), g))), Add(ip, 2), mem, R1(b) >= 8)
                /\ UNCHANGED <<call_stack, call_stack_len, open_files>>
             \/ UB({}, rt, {}) /\ Killed

\* case 0xc0: ST = REG1 - REG2; ip += 2; break; // cmp
Cmp ==
  /\ Running /\ Fixed
  /\ \E g \in Garbage :
       LET b == CodeAt(Add(ip, 1), g)
           ct == CodeRange(ip, 2)
           rt == {ST, R1(b), R2(b)}
       IN /\ CodeAt(ip, g) = 192
          /\ Trace(192, b, "", ct, {}, rt, {})
          /\ \/ /\ Continue([reg EXCEPT ![ST] = Sub(RegAt(R1(b), g), RegAt(R2(b), g))],
                            Add(ip, 2), mem, FALSE)
                /\ UNCHANGED <<call_stack, call_stack_len, open_files>>
             \/ UB({}, rt, {}) /\ Killed

\* the conditions on ST read as an unsigned Word, which C12 rules out
Condition_Unsigned(opc, st) ==
  CASE opc = 193 -> st = 0
    [] opc = 194 -> FALSE
    [] opc = 195 -> st # 0
    [] opc = 196 -> st = 0
    [] opc = 197 -> TRUE

\* ST == 0, (int64_t)ST < 0, > 0, <= 0, >= 0 of cases 0xc1..0xc5
Condition(opc, st) ==
  CASE opc = 193 -> st = 0
    [] opc = 194 -> IsNegative(st)
    [] opc = 195 -> ~IsNegative(st) /\ st # 0
    [] opc = 196 -> IsNegative(st) \/ st = 0
    [] opc = 197 -> ~IsNegative(st)

\* case 0xc1..0xc5: ST = <condition> ? 1 : 0; ip += 1; break;
IsCond ==
  /\ Running /\ Fixed
  /\ \E g \in Garbage, opc \in 193..197 :
       /\ CodeAt(ip, g) = opc
       /\ Trace(opc, -1, "", {ip}, {}, {ST}, {})
       /\ Continue([reg EXCEPT ![ST] = IF Condition(opc, reg[ST]) THEN 1 ELSE 0],
                   Add(ip, 1), mem, FALSE)
       /\ UNCHANGED <<call_stack, call_stack_len, open_files>>

\* the number of bytes of byte_code run_single reads for an opcode: the opcode,
\* the register byte, the inline byte or word
Fetched(opc) ==
  CASE opc \in {208} \cup (211..216) \cup (160..164) \cup (176..179) \cup {192, 244} -> 2
    [] opc = 209 -> 10
    [] opc = 210 -> 3
    [] opc \in {240, 242} -> 9
    [] opc = 241 -> IF reg[ST] # 0 THEN 9 ELSE 1
    [] OTHER -> 1

\* byte_code[ip], byte_code[ip + 1], ... lie outside the code section (run_single
\* checks neither ip nor the operand bytes): the read can fault before anything is
\* dispatched
FetchFault ==
  /\ Running /\ Fixed
  /\ \E g \in Garbage :
       LET ct == CodeRange(ip, Fetched(CodeAt(ip, g)))
       IN /\ ~InCode(ct)
          /\ Trace(-1, -1, "", ct, {}, {}, {})
          /\ Killed

\* the opcodes run_single's switch has a case for
Implemented ==
  {0, 224} \cup (208..216) \cup (240..244) \cup (192..197) \cup (160..164) \cup (176..179)

\* the default case as a skip of the byte, which C8 rules out
InvalidInstruction_Skips ==
  /\ Running /\ Fixed
  /\ \E g \in Garbage :
       /\ CodeAt(ip, g) \notin Implemented
       /\ Trace(CodeAt(ip, g), -1, "", {ip}, {}, {}, {})
       /\ Continue(reg, Add(ip, 1), mem, FALSE)
       /\ UNCHANGED <<call_stack, call_stack_len, open_files>>

\* default: dump_and_panic("invalid instruction %dx", opcode); return;
InvalidInstruction ==
  /\ Running /\ Fixed
  /\ \E g \in Garbage :
       /\ CodeAt(ip, g) \notin Implemented
       /\ Trace(CodeAt(ip, g), -1, "", {ip}, {}, {}, {})
       /\ dump_and_panic

------------------------------------------------------------------------------
\* The system calls.  case 0xf4: syscall_handlers[byte_code[ip + 1]](); ip += 2; break;

\* the table with the handlers registered one entry too high, which C10 rules out
init_syscalls_Shifted ==
  [n \in 1..NUM_SYSCALLS |->
     LET i == n - 2 IN
     CASE i = 0 -> "syscall_exit"
       [] i = 1 -> "syscall_print"
       [] i = 2 -> "syscall_log"
       [] i = 3 -> "syscall_create"
       [] i = 4 -> "syscall_open_reading"
       [] i = 5 -> "syscall_open_writing"
       [] i = 6 -> "syscall_read"
       [] i = 7 -> "syscall_write"
       [] i = 8 -> "syscall_close"
       [] i = 9 -> "syscall_argc"
       [] i = 10 -> "syscall_arg"
       [] OTHER -> "syscall_none"]

\* init_syscalls: every entry is syscall_none, then entries 0..10 are set
init_syscalls ==
  [n \in 1..NUM_SYSCALLS |->
     LET i == n - 1 IN
     CASE i = 0 -> "syscall_exit"
       [] i = 1 -> "syscall_print"
       [] i = 2 -> "syscall_log"
       [] i = 3 -> "syscall_create"
       [] i = 4 -> "syscall_open_reading"
       [] i = 5 -> "syscall_open_writing"
       [] i = 6 -> "syscall_read"
       [] i = 7 -> "syscall_write"
       [] i = 8 -> "syscall_close"
       [] i = 9 -> "syscall_argc"
       [] i = 10 -> "syscall_arg"
       [] OTHER -> "syscall_none"]

\* the handler the step at ip invokes, when it is a syscall instruction
Invoked(g) == syscall_handlers[CodeAt(Add(ip, 1), g) + 1]
IsSyscall(g, hs) == CodeAt(ip, g) = 244 /\ Invoked(g) \in hs
SysTrace(g, mt) ==
  Trace(244, CodeAt(Add(ip, 1), g), Invoked(g), CodeRange(ip, 2), mt, {}, {})
SysUB(mt) == UB(mt, {}, {})

\* void syscall_none(void) { dump_and_panic("invalid syscall number"); }
syscall_none ==
  /\ Running /\ Fixed
  /\ \E g \in Garbage :
       /\ IsSyscall(g, {"syscall_none"})
       /\ SysTrace(g, {})
       /\ dump_and_panic

\* exit(REGA): the status is REGA converted to int
syscall_exit ==
  /\ Running /\ Fixed
  /\ \E g \in Garbage :
       /\ IsSyscall(g, {"syscall_exit"})
       /\ SysTrace(g, {})
       /\ state' = "halted"
       /\ status' = <<IntOf(reg[REGA])>>
       /\ UNCHANGED <<machine, host_corrupt>>

\* syscall_print, syscall_log: for (int i = 0; i < REGB; i++) printf("%c", mem[REGA + i]);
syscall_print ==
  /\ Running /\ Fixed
  /\ \E g \in Garbage :
       LET mt == MemRange(reg[REGA], reg[REGB])
       IN /\ IsSyscall(g, {"syscall_print", "syscall_log"})
          /\ SysTrace(g, mt)
          /\ \/ /\ Continue(reg, Add(ip, 2), mem, FALSE)
                /\ UNCHANGED <<call_stack, call_stack_len, open_files>>
             \/ SysUB(mt) /\ Killed

\* syscall_create, syscall_open_reading, syscall_open_writing:
\*   for (int i = 0; i < REGB; i++) filename[i] = mem[REGA + i];
\*   REGA = (Word)fopen(filename, ...);  (NULL when the host cannot open it)
syscall_open ==
  /\ Running /\ Fixed
  /\ \E g \in Garbage :
       LET mt == MemRange(reg[REGA], reg[REGB])
       IN /\ IsSyscall(g, {"syscall_create", "syscall_open_reading", "syscall_open_writing"})
          /\ SysTrace(g, mt)
          /\ \/ \E f \in {0} \cup (FilePtrs \ open_files) :
                  /\ Continue([reg EXCEPT ![REGA] = f], Add(ip, 2), mem, FALSE)
                  /\ open_files' = open_files \cup ({f} \ {0})
                  /\ UNCHANGED <<call_stack, call_stack_len>>
             \/ SysUB(mt) /\ Killed

\* REGA = fread(mem + REGB, 1, REGC, (FILE*)REGA);
syscall_read ==
  /\ Running /\ Fixed
  /\ \E g \in Garbage :
       /\ IsSyscall(g, {"syscall_read"})
       /\ \E n \in {0, reg[REGC]}, fb \in FileBytes :
            LET mt == MemRange(reg[REGB], n)
            IN /\ SysTrace(g, mt)
               /\ \/ /\ Continue([reg EXCEPT ![REGA] = n], Add(ip, 2),
                                 MemWrite(reg[REGB], [k \in 1..n |-> fb]), ~InArena(mt))
                     /\ UNCHANGED <<call_stack, call_stack_len, open_files>>
                  \/ (reg[REGA] \notin open_files \/ SysUB(mt)) /\ Killed

\* fwrite(mem + REGB, 1, REGC, (FILE*)REGA);
syscall_write ==
  /\ Running /\ Fixed
  /\ \E g \in Garbage :
       LET mt == MemRange(reg[REGB], reg[REGC])
       IN /\ IsSyscall(g, {"syscall_write"})
          /\ SysTrace(g, mt)
          /\ \/ /\ Continue(reg, Add(ip, 2), mem, FALSE)
                /\ UNCHANGED <<call_stack, call_stack_len, open_files>>
             \/ (reg[REGA] \notin open_files \/ SysUB(mt)) /\ Killed

\* fclose((FILE*)REGA);
syscall_close ==
  /\ Running /\ Fixed
  /\ \E g \in Garbage :
       /\ IsSyscall(g, {"syscall_close"})
       /\ SysTrace(g, {})
       /\ \/ /\ Continue(reg, Add(ip, 2), mem, FALSE)
             /\ open_files' = open_files \ {reg[REGA]}
             /\ UNCHANGED <<call_stack, call_stack_len>>
          \/ reg[REGA] \notin open_files /\ Killed

\* REGA = global_argc;
syscall_argc ==
  /\ Running /\ Fixed
  /\ \E g \in Garbage :
       /\ IsSyscall(g, {"syscall_argc"})
       /\ SysTrace(g, {})
       /\ Continue([reg EXCEPT ![REGA] = global_argc], Add(ip, 2), mem, FALSE)
       /\ UNCHANGED <<call_stack, call_stack_len, open_files>>

\* if (REGA < 0 || REGA >= global_argc) dump_and_panic("arg index out of bounds");
\* written = len > REGC ? REGC : len; for (i < written) mem[REGB + i] = arg[i]; REGA = written;
syscall_arg ==
  /\ Running /\ Fixed
  /\ \E g \in Garbage :
       /\ IsSyscall(g, {"syscall_arg"})
       /\ IF reg[REGA] >= global_argc
          THEN /\ SysTrace(g, {})
               /\ dump_and_panic
          ELSE LET arg == global_argv[reg[REGA] + 1]
                   len == Len(arg)
                   written == IF len > reg[REGC] THEN reg[REGC] ELSE len
                   mt == MemRange(reg[REGB], written)
               IN /\ SysTrace(g, mt)
                  /\ \/ /\ Continue([reg EXCEPT ![REGA] = written], Add(ip, 2),
                                    MemWrite(reg[REGB], SubSeq(arg, 1, written)), ~InArena(mt))
                        /\ UNCHANGED <<call_stack, call_stack_len, open_files>>
                     \/ SysUB(mt) /\ Killed

------------------------------------------------------------------------------
\* The byte code the interpreter is started on: instructions as the assembler
\* lays them out (EMIT_OP, EMIT_OP_REG, EMIT_OP_REG_REG, ...)

I_op(opc) == <<opc>>
I_reg(opc, r) == <<opc, r>>
I_regs(opc, r1, r2) == <<opc, r1 + 16 * r2>>
I_reg_byte(opc, r, b) == <<opc, r, b>>
I_reg_word(opc, r, w) == <<opc, r>> \o WordBytes(w)
I_byte(opc, b) == <<opc, b>>
I_word(opc, w) == <<opc>> \o WordBytes(w)

SetAB(va, vb) == I_reg_word(209, REGA, va) \o I_reg_word(209, REGB, vb)
SetABC(va, vb, vc) == SetAB(va, vb) \o I_reg_word(209, REGC, vc)

AddrVals == {0, 1, MEMORY_SIZE - 8, MEMORY_SIZE - 7, MEMORY_SIZE - 1, MEMORY_SIZE, WordMod - 1}
ArithVals == {0, 1, 3, WordMod \div 2, WordMod - 1}
SysVals == {0, 1, MEMORY_SIZE - 1, WordMod - 32}
CountVals == {0, 2, MEMORY_SIZE}

\* every opcode byte, without operands and with in-range operand bytes
OpcodePrograms ==
  {I_op(opc) : opc \in Bytes}
    \cup {I_regs(opc, REGA, REGB) \o WordBytes(0) : opc \in Bytes}

MemoryPrograms ==
  {SetAB(va, vb) \o I_regs(opc, REGA, REGB) : va \in AddrVals, vb \in AddrVals, opc \in 211..214}

StackPrograms ==
  {I_reg(216, REGA),
   I_reg(215, REGA) \o I_reg(215, REGA) \o I_reg(215, REGA),
   I_reg_byte(210, REGA, 7) \o I_reg(215, REGA) \o I_reg(216, REGB) \o I_reg(216, REGC),
   I_reg(215, SP) \o I_reg(216, SP)}
    \cup {I_reg_word(209, SP, v) \o I_reg(opc, REGA) : v \in AddrVals \cup {8}, opc \in {215, 216}}

ArithPrograms ==
  {SetAB(va, vb) \o I_regs(opc, REGA, REGB) :
     va \in ArithVals, vb \in ArithVals, opc \in {160, 161, 162, 163, 164, 176, 177, 178, 208}}
    \cup {SetAB(va, vb) \o I_regs(192, REGA, REGB) \o I_op(opc) :
            va \in ArithVals, vb \in ArithVals, opc \in 193..197}
    \cup {SetAB(va, 0) \o I_reg(179, REGA) : va \in ArithVals}
    \cup {I_reg_byte(210, REGC, 200)}

ControlPrograms ==
  {I_word(242, 0),                                      \* a call of itself
   I_op(243),                                           \* ret on the empty stack
   I_word(242, 10) \o I_op(224) \o I_op(243),           \* call, ret, panic
   I_word(242, 9) \o I_op(243),                         \* call, ret, ret
   I_word(240, 0),
   I_word(241, 0),
   I_reg_byte(210, ST, 1) \o I_word(241, 12) \o I_op(224),
   \* ret on the empty stack, then (when ip comes back as 0) a reserved opcode
   I_word(241, 13) \o I_reg_byte(210, ST, 1) \o I_op(243) \o I_op(127),
   <<0, 0, 0, 0, 0, 0, 0, 0>>}                          \* eight nops
    \cup {I_word(opc, t) : opc \in {240, 242}, t \in {9, 10, WordMod - 1}}

SyscallPrograms ==
  {I_byte(244, n) : n \in Bytes}
    \cup {SetABC(va, vb, vc) \o I_byte(244, n) :
            va \in SysVals, vb \in SysVals, vc \in CountVals, n \in 0..11}
    \cup {I_byte(244, n) \o I_reg_word(209, REGB, vb) \o I_reg_word(209, REGC, vc)
            \o I_byte(244, m) \o I_byte(244, 8) \o I_byte(244, 8) :
            n \in 3..5, m \in 6..7, vb \in {0, MEMORY_SIZE - 1}, vc \in {2}}

Programs ==
  OpcodePrograms \cup MemoryPrograms \cup StackPrograms \cup ArithPrograms
    \cup ControlPrograms \cup SyscallPrograms

\* the initial-memory section of the binary
InitialMemory == <<104, 101, 108, 108, 111>>

------------------------------------------------------------------------------
\* init_vm: registers zero except SP, the arena from malloc (not initialised) with
\* the initial-memory section at address 0, the syscall table, the code section

Init ==
  /\ byte_code \in Programs
  /\ reg = [i \in 0..7 |-> IF i = SP THEN MEMORY_SIZE ELSE 0]
  /\ ip = 0
  /\ \E fill \in Garbage :
       mem = [i \in 1..MEMORY_SIZE |->
                IF i <= Len(InitialMemory) THEN InitialMemory[i] ELSE fill]
  /\ call_stack = <<>>
  /\ call_stack_len = 0
  /\ syscall_handlers = init_syscalls
  /\ open_files = {}
  /\ state = "running"
  /\ status = <<>>
  /\ opcode = -1
  /\ operand = -1
  /\ handler = ""
  /\ code_touched = {}
  /\ mem_touched = {}
  /\ reg_touched = {}
  /\ cs_touched = {}
  /\ host_corrupt = FALSE
  /\ AsmIdle
  /\ LoadIdle

\* run: for (;;) run_single();
Next ==
  \/ Nop \/ Panic \/ Move \/ MoveI \/ MoveIB \/ Load \/ Store \/ Push \/ Pop
  \/ Jump \/ CJump \/ Call \/ Ret
  \/ Alu \/ Div \/ NotOp \/ Cmp \/ IsCond \/ InvalidInstruction \/ FetchFault
  \/ syscall_none \/ syscall_exit \/ syscall_print \/ syscall_open \/ syscall_read
  \/ syscall_write \/ syscall_close \/ syscall_argc \/ syscall_arg

Spec == Init /\ [][Next]_vars

------------------------------------------------------------------------------
\* Properties of the dispatch step.  In a step, the unprimed variables are the
\* machine before run_single and opcode', operand', ... describe what it did.

\* the step read its instruction from the code section, the operand byte names
\* registers 0..7, and no earlier step wrote outside an object
Decoded ==
  /\ InCode(code_touched')
  /\ operand' >= 0 => (R1(operand') < 8 /\ R2(operand') < 8)
  /\ ~host_corrupt

\* the address register of load, loadb (REG2) and store, storeb (REG1), before the step
AddressOperand == IF opcode' \in {211, 212} THEN reg[R2(operand')] ELSE reg[R1(operand')]
AccessWidth == IF opcode' \in {211, 213} THEN 8 ELSE 1

\* C1: load and store at an address a > MEMORY_SIZE - 8, loadb and storeb at
\* a > MEMORY_SIZE - 1, trap without touching the arena or changing a register.
C1_OutOfRangeAccessTraps ==
  [][(Decoded /\ opcode' \in 211..214 /\ AddressOperand > MEMORY_SIZE - AccessWidth)
       => (state' = "trapped" /\ mem_touched' = {} /\ reg' = reg /\ mem' = mem)]_vars

\* the handlers that read or write the arena
ArenaHandlers ==
  {"syscall_print", "syscall_log", "syscall_create", "syscall_open_reading",
   "syscall_open_writing", "syscall_read", "syscall_write", "syscall_arg"}

\* C2: every arena byte that push, pop or a system-call handler reads or writes has
\* an index in [0, MEMORY_SIZE): an access range that leaves the arena traps instead.
C2_StackAndSyscallsStayInArena ==
  [][(Decoded /\ (opcode' \in {215, 216} \/ handler' \in ArenaHandlers))
       => InArena(mem_touched')]_vars

\* C3: at the start of each dispatch step 0 <= ip < bytecode_len, and no step
\* decodes bytes outside the byte code buffer.
C3_IpWithinByteCode ==
  /\ state = "running" => ip < bytecode_len
  /\ InCode(code_touched)

\* C4: nop increases ip by 1, changes nothing else and leaves the interpreter running.
C4_NopAdvances ==
  [][(Decoded /\ opcode' = 0)
       => /\ ip' = Add(ip, 1)
          /\ state' = "running"
          /\ UNCHANGED <<reg, mem, call_stack, call_stack_len>>]_vars

\* C5: div with r2 = 0 traps, with every register and the memory unchanged; it
\* neither produces a value in r1 nor continues.
C5_DivByZeroTraps ==
  [][(Decoded /\ opcode' = 163 /\ reg[R2(operand')] = 0)
       => (state' = "trapped" /\ UNCHANGED <<reg, mem, ip>>)]_vars

\* C6: ret on the empty call stack traps; the depth never wraps and ip is only
\* loaded from the occupied part of the call stack.
C6_RetOnEmptyStackTraps ==
  [][(Decoded /\ opcode' = 243 /\ call_stack_len <= CALL_STACK_SIZE)
       => /\ call_stack_len = 0 => (state' = "trapped" /\ UNCHANGED <<ip, call_stack_len>>)
          /\ call_stack_len' <= call_stack_len
          /\ cs_touched' \subseteq 0..(call_stack_len - 1)]_vars

\* C7: the call-stack depth stays in 0..1024: call at depth 1024 traps instead of
\* writing a return address beyond the stack.
C7_CallDepthCapped ==
  [][(Decoded /\ opcode' = 242 /\ call_stack_len <= CALL_STACK_SIZE)
       => /\ call_stack_len = CALL_STACK_SIZE
               => (state' = "trapped" /\ UNCHANGED <<ip, call_stack, call_stack_len>>)
          /\ call_stack_len' <= CALL_STACK_SIZE
          /\ InStack(cs_touched')]_vars

\* the opcodes with a row in the opcode table of the specification (0xa0..0xa3,
\* without 0xa4)
SpecOpcodeTable ==
  {0, 224} \cup (208..216) \cup (240..244) \cup (192..197) \cup (160..163) \cup (176..179)

\* the step executed its instruction within the objects it indexes and divided by
\* no zero
WellDefined ==
  /\ Decoded
  /\ InArena(mem_touched') /\ InRegs(reg_touched') /\ InStack(cs_touched')
  /\ opcode' \in {163, 164} => reg[R2(operand')] # 0

C9_ThreeStates ==
  [][/\ state = "running"
     /\ Decoded
          => /\ state' \in {"running", "trapped", "halted"}
             /\ state' = "halted"
                  => (opcode' = 244 /\ operand' = 0 /\ status' = <<reg[REGA]>>)
             /\ state' = "trapped" => (Len(status') = 1 /\ status'[1] # 0)]_vars

\* the handlers the specification's system-call table names for 0..10
SpecSyscallTable ==
  <<"syscall_exit", "syscall_print", "syscall_log", "syscall_create",
    "syscall_open_reading", "syscall_open_writing", "syscall_read", "syscall_write",
    "syscall_close", "syscall_argc", "syscall_arg">>

C11_CallAndRetBalance ==
  [][/\ (Decoded /\ opcode' = 242 /\ call_stack_len <= CALL_STACK_SIZE)
          => /\ state' = "running"
             /\ InStack(cs_touched')
             /\ call_stack_len' = call_stack_len + 1
             /\ Len(call_stack') >= call_stack_len'
             /\ call_stack'[call_stack_len'] = Add(ip, 9)
             /\ ip' = CodeWordAt(Add(ip, 1), 0)
             /\ UNCHANGED <<reg, mem>>
     /\ (Decoded /\ opcode' = 243 /\ call_stack_len \in 1..CALL_STACK_SIZE)
          => /\ state' = "running"
             /\ call_stack_len' = call_stack_len - 1
             /\ ip' = StackAt(call_stack_len')
             /\ UNCHANGED <<reg, mem, call_stack>>]_vars

\* a Word read as a signed integer
Signed(w) == IF w >= 2^(WordBits - 1) THEN w - 2^WordBits ELSE w

\* the step's operand byte names two of the eight registers
NamesRegisters == operand' >= 0 /\ R1(operand') < 8 /\ R2(operand') < 8

\* C12: cmp sets st = (r1 - r2) mod 2^w; isequal, isless, isgreater, islessequal,
\* isgreaterequal set st to 1 exactly when st as a signed integer is = 0, < 0, > 0,
\* <= 0, >= 0, and to 0 otherwise; add, sub, mul store the result mod 2^w in r1 and
\* leave r2 (when distinct) unchanged.
C12_CompareAndArithmetic ==
  [][LET r1 == R1(operand')
         r2 == R2(operand')
         st == Signed(reg[ST])
         is == [o \in 193..197 |->
                  CASE o = 193 -> st = 0
                    [] o = 194 -> st < 0
                    [] o = 195 -> st > 0
                    [] o = 196 -> st <= 0
                    [] o = 197 -> st >= 0]
         op == [o \in 160..162 |->
                  CASE o = 160 -> reg[r1] + reg[r2]
                    [] o = 161 -> reg[r1] - reg[r2]
                    [] o = 162 -> reg[r1] * reg[r2]]
     IN /\ (opcode' = 192 /\ NamesRegisters)
             => /\ state' = "running"
                /\ reg'[ST] = (reg[r1] - reg[r2]) % 2^WordBits
                /\ \A r \in 0..7 : r # ST => reg'[r] = reg[r]
        /\ opcode' \in 193..197
             => /\ state' = "running"
                /\ reg'[ST] = (IF is[opcode'] THEN 1 ELSE 0)
                /\ \A r \in 0..7 : r # ST => reg'[r] = reg[r]
        /\ (opcode' \in 160..162 /\ NamesRegisters)
             => /\ state' = "running"
                /\ reg'[r1] = op[opcode'] % 2^WordBits
                /\ \A r \in 0..7 : r # r1 => reg'[r] = reg[r]]_vars

\* cmp of a smaller with a larger value, then isless, has set st to 1
C12_Witness ==
  /\ opcode = 194
  /\ reg[REGA] = 3 /\ reg[REGB] = 2^(WordBits - 1)
  /\ reg[ST] = 1
  /\ state = "running"

------------------------------------------------------------------------------
\* The assembler (src/assemble.c).  A character is a one-character string; a Str
\* is a sequence of characters.

NUL == "NUL"
NL == "\n"
QUOTE == "\""

DigitChars == <<"0", "1", "2", "3", "4", "5", "6", "7", "8", "9">>
LetterChars == <<"a", "b", "c", "d", "e", "f", "g", "h", "i", "j", "k", "l", "m", "n", "o", "p", "q", "r", "s", "t", "u", "v", "w", "x", "y", "z">>

\* the position of c in the sequence cs (0 if it is not in it)
IndexIn(cs, c) == IF \E i \in 1..Len(cs) : cs[i] = c THEN CHOOSE i \in 1..Len(cs) : cs[i] = c ELSE 0

\* the value of a character as a C char
Ascii(c) ==
  CASE IndexIn(DigitChars, c) > 0 -> 47 + IndexIn(DigitChars, c)
    [] IndexIn(LetterChars, c) > 0 -> 96 + IndexIn(LetterChars, c)
    [] c = NUL -> 0
    [] c = NL -> 10
    [] c = " " -> 32
    [] c = QUOTE -> 34
    [] c = "." -> 46
    [] c = ":" -> 58
    [] c = "@" -> 64
    [] c = "_" -> 95
    [] c = "|" -> 124

\* the bytes of a Str
StrBytes(str) == [i \in 1..Len(str) |-> Ascii(str[i])]

min(a, b) == IF a < b THEN a ELSE b

is_whitespace(c) == c = " " \/ c = NL
is_num(c) == Ascii(c) >= Ascii("0") /\ Ascii(c) <= Ascii("9")
is_name(c) == ~is_whitespace(c) /\ c # ":"

\* The parser.  Its state is cursor and current; the parsing functions take such a
\* state p and give the state they leave.

recipe_len == Len(recipe)
Parser == [cursor |-> cursor, current |-> current]

\* the outcome of a parsing function: ok, or the message of its panic
Parsed(p, val) == [ok |-> TRUE, p |-> p, val |-> val, err |-> ""]
Panicked(err) == [ok |-> FALSE, p |-> [cursor |-> 0, current |-> NUL], val |-> <<>>, err |-> err]

is_at_end(p) == p.cursor >= recipe_len
\* current = recipe[cursor]; cursor++;
advance(p) ==
  [cursor |-> p.cursor + 1,
   current |-> IF p.cursor < recipe_len THEN recipe[p.cursor + 1] ELSE NUL]

\* while (!is_at_end() && current != '\n') advance();
RECURSIVE skip_comment(_)
skip_comment(p) ==
  IF ~is_at_end(p) /\ p.current # NL THEN skip_comment(advance(p)) ELSE p

RECURSIVE consume_whitespace(_)
consume_whitespace(p) ==
  IF is_at_end(p) THEN p
  ELSE IF p.current = " " \/ p.current = NL THEN consume_whitespace(advance(p))
  ELSE IF p.current = "|" THEN consume_whitespace(skip_comment(p))
  ELSE p

consume_prefix(p, prefix) ==
  LET q == consume_whitespace(p)
  IN IF q.current # prefix THEN [ok |-> FALSE, p |-> q] ELSE [ok |-> TRUE, p |-> advance(q)]

\* while (!is_at_end() && current != '"') { push_to_bytes(&str, current); advance(); }
RECURSIVE str_chars(_, _)
str_chars(p, acc) ==
  IF ~is_at_end(p) /\ p.current # QUOTE
  THEN str_chars(advance(p), Append(acc, p.current))
  ELSE [p |-> p, val |-> acc]

parse_str(p) ==
  LET a == consume_prefix(p, QUOTE)
      b == str_chars(a.p, <<>>)
      c == consume_prefix(b.p, QUOTE)
  IN IF ~a.ok THEN Panicked("Expected a string.")
     ELSE IF ~c.ok THEN Panicked("Expected end of string.")
     ELSE Parsed(c.p, b.val)

\* while (!is_at_end() && is_name(current)) { push_to_bytes(&name, current); advance(); }
RECURSIVE name_chars(_, _)
name_chars(p, acc) ==
  IF ~is_at_end(p) /\ is_name(p.current)
  THEN name_chars(advance(p), Append(acc, p.current))
  ELSE [p |-> p, val |-> acc]

parse_name(p) ==
  LET q == consume_whitespace(p)
      n == name_chars(q, <<>>)
  IN IF q.current = QUOTE THEN parse_str(q)
     ELSE IF n.val = <<>> THEN Panicked("Expected a name.")
     ELSE Parsed(n.p, n.val)

\* the loop of parse_digits, from num and parsed_something
RECURSIVE digits(_, _, _, _)
digits(p, radix, num, parsed_something) ==
  LET c == Ascii(p.current)
  IN IF is_at_end(p) THEN [p |-> p, val |-> num, parsed |-> parsed_something]
     ELSE IF c >= Ascii("0") /\ c < Ascii("0") + min(radix, 10)
     THEN digits(advance(p), radix, (num * radix + c - Ascii("0")) % WordMod, TRUE)
     ELSE IF radix >= 10 /\ c >= Ascii("a") /\ c < Ascii("a") + min(radix - 10, 26)
     THEN digits(advance(p), radix, (num * radix + c - Ascii("a") + 10) % WordMod, TRUE)
     ELSE IF p.current # "_" THEN [p |-> p, val |-> num, parsed |-> parsed_something]
     ELSE digits(advance(p), radix, num, TRUE)

parse_digits(p, radix) ==
  LET d == digits(p, radix, 0, FALSE)
  IN IF ~d.parsed THEN Panicked("Expected a number.") ELSE Parsed(d.p, d.val)

parse_num(p) ==
  LET z == consume_prefix(consume_whitespace(p), "0")
      b == consume_prefix(z.p, "b")
      x == consume_prefix(b.p, "x")
  IN IF ~z.ok THEN parse_digits(z.p, 10)
     ELSE IF is_whitespace(z.p.current) THEN Parsed(z.p, 0)
     ELSE IF b.ok THEN parse_digits(b.p, 2)
     ELSE IF x.ok THEN parse_digits(x.p, 16)
     ELSE Panicked("Expected number radix char (b or x).")

\* typedef enum { reg_sp, reg_st, reg_a, ... } Reg, by name; to_bits(reg) is the
\* position in this list, from 0
RegNames == <<<<"s", "p">>, <<"s", "t">>, <<"a">>, <<"b">>, <<"c">>, <<"d">>, <<"e">>, <<"f">>>>

parse_reg(p) ==
  LET n == parse_name(p)
  IN IF ~n.ok THEN n
     ELSE IF IndexIn(RegNames, n.val) = 0 THEN Panicked("Expected a register.")
     ELSE Parsed(n.p, IndexIn(RegNames, n.val) - 1)

\* Label storage.

\* while (num_dots < label.len && label.bytes[num_dots] == '.') num_dots++;
RECURSIVE leading_dots(_, _)
leading_dots(label, num_dots) ==
  IF num_dots < Len(label) /\ label[num_dots + 1] = "."
  THEN leading_dots(label, num_dots + 1)
  ELSE num_dots

\* the while (true) loop of globalize_label: shared_prefix at its break, -1 when it
\* panics
RECURSIVE shared_prefix_at_break(_, _, _)
shared_prefix_at_break(last, shared_prefix, num_dots) ==
  IF shared_prefix >= Len(last)
  THEN (IF num_dots = 1 THEN shared_prefix ELSE -1)
  ELSE IF last[shared_prefix + 1] = "."
  THEN (IF num_dots - 1 = 0 THEN shared_prefix
        ELSE shared_prefix_at_break(last, shared_prefix + 1, num_dots - 1))
  ELSE shared_prefix_at_break(last, shared_prefix + 1, num_dots)

\* globalize_label appending under the whole of last
globalize_label_UnderWhole(label, last) ==
  LET num_dots == leading_dots(label, 0)
      tail == SubSeq(label, num_dots + 1, Len(label))
      shared_prefix == shared_prefix_at_break(last, 0, num_dots)
  IN IF num_dots = 0 THEN [label |-> label, last |-> last, ok |-> TRUE, global |-> tail]
     ELSE IF shared_prefix < 0
     THEN [label |-> label, last |-> last, ok |-> FALSE, global |-> <<>>]
     ELSE [label |-> label, last |-> last, ok |-> TRUE, global |-> last \o <<".">> \o tail]

\* globalize_label panicking whenever it reaches the end of last
globalize_label_Strict(label, last) ==
  LET num_dots == leading_dots(label, 0)
      tail == SubSeq(label, num_dots + 1, Len(label))
      shared_prefix == shared_prefix_at_break(last, 0, num_dots)
  IN IF num_dots = 0 THEN [label |-> label, last |-> last, ok |-> TRUE, global |-> tail]
     ELSE IF shared_prefix < 0 \/ shared_prefix >= Len(last)
     THEN [label |-> label, last |-> last, ok |-> FALSE, global |-> <<>>]
     ELSE [label |-> label, last |-> last, ok |-> TRUE,
           global |-> SubSeq(last, 1, shared_prefix) \o <<".">> \o tail]

\* globalize_label(label) with last_label = last
globalize_label(label, last) ==
  LET num_dots == leading_dots(label, 0)
      tail == SubSeq(label, num_dots + 1, Len(label))
      shared_prefix == shared_prefix_at_break(last, 0, num_dots)
  IN IF num_dots = 0 THEN [label |-> label, last |-> last, ok |-> TRUE, global |-> tail]
     ELSE IF shared_prefix < 0
     THEN [label |-> label, last |-> last, ok |-> FALSE, global |-> <<>>]
     ELSE [label |-> label, last |-> last, ok |-> TRUE,
           global |-> SubSeq(last, 1, shared_prefix) \o <<".">> \o tail]

\* find_label returning the pos of the last entry with this label
find_label_Last(ls, label) ==
  IF \E i \in 1..Len(ls) : ls[i].label = label
  THEN ls[CHOOSE i \in 1..Len(ls) :
            ls[i].label = label /\ \A j \in (i + 1)..Len(ls) : ls[j].label # label].pos
  ELSE -1

\* find_label: the pos of the first entry with this label, -1 if there is none
find_label(ls, label) ==
  IF \E i \in 1..Len(ls) : ls[i].label = label
  THEN ls[CHOOSE i \in 1..Len(ls) :
            ls[i].label = label /\ \A j \in 1..(i - 1) : ls[j].label # label].pos
  ELSE -1

\* The output binary.

\* overwrite_word, clearing the byte after the word as well
overwrite_word_Wide(out, pos, word) ==
  [i \in 1..Len(out) |->
     IF i - 1 >= pos /\ i - 1 < pos + 8 THEN WordBytes(word)[i - pos]
     ELSE IF i - 1 = pos + 8 THEN 0 ELSE out[i]]

overwrite_word(out, pos, word) ==
  [i \in 1..Len(out) |->
     IF i - 1 >= pos /\ i - 1 < pos + 8 THEN WordBytes(word)[i - pos] ELSE out[i]]

\* fix_patches from patch i on: the output with the patches applied, or the label
\* that is not defined
RECURSIVE fix_patches(_, _, _, _)
fix_patches(out, ps, ls, i) ==
  IF i > Len(ps) THEN [ok |-> TRUE, output |-> out, label |-> <<>>]
  ELSE IF find_label(ls, ps[i].label) = -1
  THEN [ok |-> FALSE, output |-> out, label |-> ps[i].label]
  ELSE fix_patches(overwrite_word(out, ps[i].where, find_label(ls, ps[i].label)), ps, ls, i + 1)

\* What an instruction or a directive does: ok or the message of its panic, the
\* parser state, the output, the patches pushed, the calls of globalize_label
Emitted(p, out, ps, gs) ==
  [ok |-> TRUE, err |-> "", p |-> p, output |-> out, patches |-> ps, globalized |-> gs]
Failed(err, gs) ==
  [ok |-> FALSE, err |-> err, p |-> [cursor |-> 0, current |-> NUL], output |-> <<>>,
   patches |-> <<>>, globalized |-> gs]

\* emit_label_ref(name) for the parsed name n
emit_label_ref(n, out) ==
  LET g == globalize_label(n.val, last_label)
  IN IF ~n.ok THEN Failed(n.err, <<>>)
     ELSE IF ~g.ok THEN Failed("Label has too many dots at the beginning.", <<g>>)
     ELSE Emitted(n.p, out \o WordBytes(0), <<[label |-> g.global, where |-> Len(out)]>>, <<g>>)

\* emit_word(parse_num()) for the parsed number n
emit_word(n, out) ==
  IF ~n.ok THEN Failed(n.err, <<>>) ELSE Emitted(n.p, out \o WordBytes(n.val), <<>>, <<>>)

\* emit_byte(parse_num()) for the parsed number n
emit_byte(n, out) ==
  IF ~n.ok THEN Failed(n.err, <<>>) ELSE Emitted(n.p, Append(out, n.val % 256), <<>>, <<>>)

\* emit_str(parse_str()) for the parsed string n
emit_str(n, out) ==
  IF ~n.ok THEN Failed(n.err, <<>>) ELSE Emitted(n.p, out \o StrBytes(n.val), <<>>, <<>>)

\* emit_reg(parse_reg()) for the parsed register a
emit_reg(a, out) ==
  IF ~a.ok THEN Failed(a.err, <<>>) ELSE Emitted(a.p, Append(out, a.val), <<>>, <<>>)

\* emit_regs with the two nibbles exchanged
emit_regs_Swapped(a, b, out) ==
  IF ~a.ok THEN Failed(a.err, <<>>)
  ELSE IF ~b.ok THEN Failed(b.err, <<>>)
  ELSE Emitted(b.p, Append(out, b.val + 16 * a.val), <<>>, <<>>)

\* emit_regs(a, b) for the parsed registers a and b
emit_regs(a, b, out) ==
  IF ~a.ok THEN Failed(a.err, <<>>)
  ELSE IF ~b.ok THEN Failed(b.err, <<>>)
  ELSE Emitted(b.p, Append(out, a.val + 16 * b.val), <<>>, <<>>)

\* if (is_num(current)) emit_word(parse_num()); else emit_label_ref(parse_name());
emit_word_or_label_ref(p, out) ==
  IF is_num(p.current) THEN emit_word(parse_num(p), out)
  ELSE emit_label_ref(parse_name(p), out)

\* the commands of the byte code section: name, opcode and EMIT_OP macro
Mnemonics ==
  <<
    [name |-> <<"n", "o", "p">>, opcode |-> 0, shape |-> "op"],
    [name |-> <<"p", "a", "n", "i", "c">>, opcode |-> 224, shape |-> "op"],
    [name |-> <<"t", "r", "y", "s", "t", "a", "r", "t">>, opcode |-> 225, shape |-> "word"],
    [name |-> <<"t", "r", "y", "e", "n", "d">>, opcode |-> 226, shape |-> "op"],
    [name |-> <<"m", "o", "v", "e">>, opcode |-> 208, shape |-> "reg_reg"],
    [name |-> <<"m", "o", "v", "e", "i">>, opcode |-> 209, shape |-> "reg_word"],
    [name |-> <<"m", "o", "v", "e", "i", "b">>, opcode |-> 210, shape |-> "reg_byte"],
    [name |-> <<"l", "o", "a", "d">>, opcode |-> 211, shape |-> "reg_reg"],
    [name |-> <<"l", "o", "a", "d", "b">>, opcode |-> 212, shape |-> "reg_reg"],
    [name |-> <<"s", "t", "o", "r", "e">>, opcode |-> 213, shape |-> "reg_reg"],
    [name |-> <<"s", "t", "o", "r", "e", "b">>, opcode |-> 214, shape |-> "reg_reg"],
    [name |-> <<"p", "u", "s", "h">>, opcode |-> 215, shape |-> "reg"],
    [name |-> <<"p", "o", "p">>, opcode |-> 216, shape |-> "reg"],
    [name |-> <<"j", "u", "m", "p">>, opcode |-> 240, shape |-> "label"],
    [name |-> <<"c", "j", "u", "m", "p">>, opcode |-> 241, shape |-> "label"],
    [name |-> <<"c", "a", "l", "l">>, opcode |-> 242, shape |-> "word"],
    [name |-> <<"r", "e", "t">>, opcode |-> 243, shape |-> "op"],
    [name |-> <<"s", "y", "s", "c", "a", "l", "l">>, opcode |-> 244, shape |-> "byte"],
    [name |-> <<"c", "m", "p">>, opcode |-> 192, shape |-> "reg_reg"],
    [name |-> <<"i", "s", "e", "q", "u", "a", "l">>, opcode |-> 193, shape |-> "op"],
    [name |-> <<"i", "s", "l", "e", "s", "s">>, opcode |-> 194, shape |-> "op"],
    [name |-> <<"i", "s", "g", "r", "e", "a", "t", "e", "r">>, opcode |-> 195, shape |-> "op"],
    [name |-> <<"i", "s", "l", "e", "s", "s", "e", "q", "u", "a", "l">>, opcode |-> 196, shape |-> "op"],
    [name |-> <<"i", "s", "g", "r", "e", "a", "t", "e", "r", "e", "q", "u", "a", "l">>, opcode |-> 197, shape |-> "op"],
    [name |-> <<"i", "s", "n", "o", "t", "e", "q", "u", "a", "l">>, opcode |-> 198, shape |-> "op"],
    [name |-> <<"f", "c", "m", "p">>, opcode |-> 199, shape |-> "reg_reg"],
    [name |-> <<"f", "i", "s", "e", "q", "u", "a", "l">>, opcode |-> 200, shape |-> "op"],
    [name |-> <<"f", "i", "s", "l", "e", "s", "s">>, opcode |-> 201, shape |-> "op"],
    [name |-> <<"f", "i", "s", "g", "r", "e", "a", "t", "e", "r">>, opcode |-> 202, shape |-> "op"],
    [name |-> <<"f", "i", "s", "l", "e", "s", "s", "e", "q", "u", "a", "l">>, opcode |-> 203, shape |-> "op"],
    [name |-> <<"f", "i", "s", "g", "r", "e", "a", "t", "e", "r", "e", "q", "u", "a", "l">>, opcode |-> 204, shape |-> "op"],
    [name |-> <<"f", "i", "s", "n", "o", "t", "e", "q", "u", "a", "l">>, opcode |-> 205, shape |-> "op"],
    [name |-> <<"i", "n", "t", "t", "o", "f", "l", "o", "a", "t">>, opcode |-> 206, shape |-> "reg"],
    [name |-> <<"f", "l", "o", "a", "t", "t", "o", "i", "n", "t">>, opcode |-> 207, shape |-> "reg"],
    [name |-> <<"a", "d", "d">>, opcode |-> 160, shape |-> "reg_reg"],
    [name |-> <<"s", "u", "b">>, opcode |-> 161, shape |-> "reg_reg"],
    [name |-> <<"m", "u", "l">>, opcode |-> 162, shape |-> "reg_reg"],
    [name |-> <<"d", "i", "v">>, opcode |-> 163, shape |-> "reg_reg"],
    [name |-> <<"r", "e", "m">>, opcode |-> 164, shape |-> "reg_reg"],
    [name |-> <<"f", "a", "d", "d">>, opcode |-> 165, shape |-> "reg_reg"],
    [name |-> <<"f", "s", "u", "b">>, opcode |-> 166, shape |-> "reg_reg"],
    [name |-> <<"f", "m", "u", "l">>, opcode |-> 167, shape |-> "reg_reg"],
    [name |-> <<"f", "d", "i", "v">>, opcode |-> 168, shape |-> "reg_reg"],
    [name |-> <<"a", "n", "d">>, opcode |-> 176, shape |-> "reg_reg"],
    [name |-> <<"o", "r">>, opcode |-> 177, shape |-> "reg_reg"],
    [name |-> <<"x", "o", "r">>, opcode |-> 178, shape |-> "reg_reg"],
    [name |-> <<"n", "o", "t">>, opcode |-> 179, shape |-> "reg"]
  >>

MnemonicOf(command) ==
  IF \E i \in 1..Len(Mnemonics) : Mnemonics[i].name = command
  THEN CHOOSE i \in 1..Len(Mnemonics) : Mnemonics[i].name = command
  ELSE 0

\* the operands of EMIT_OP_REG_REG, EMIT_OP_REG_BYTE and EMIT_OP_REG_WORD after
\* the parsed register a
EMIT_OP_REG_REG(a, out) == emit_regs(a, parse_reg(a.p), out)
EMIT_OP_REG_BYTE(a, out) ==
  IF ~a.ok THEN Failed(a.err, <<>>) ELSE emit_byte(parse_num(a.p), Append(out, a.val))
EMIT_OP_REG_WORD(a, out) ==
  IF ~a.ok THEN Failed(a.err, <<>>)
  ELSE emit_word_or_label_ref(consume_whitespace(a.p), Append(out, a.val))

\* EMIT_OP(opcode) ... EMIT_OP_LABEL(opcode) at parser state p
EMIT_OP(opc, shape, p) ==
  CASE shape = "op" -> Emitted(p, Append(output, opc), <<>>, <<>>)
    [] shape = "reg" -> emit_reg(parse_reg(p), Append(output, opc))
    [] shape = "reg_reg" -> EMIT_OP_REG_REG(parse_reg(p), Append(output, opc))
    [] shape = "reg_byte" -> EMIT_OP_REG_BYTE(parse_reg(p), Append(output, opc))
    [] shape = "reg_word" -> EMIT_OP_REG_WORD(parse_reg(p), Append(output, opc))
    [] shape = "byte" -> emit_byte(parse_num(p), Append(output, opc))
    [] shape = "word" -> emit_word_or_label_ref(consume_whitespace(p), Append(output, opc))
    [] shape = "label" -> emit_label_ref(parse_name(p), Append(output, opc))

\* the directives of the initial memory section: str, byte, word
DataCommand(command, p) ==
  IF command = <<"s", "t", "r">> THEN emit_str(parse_str(p), output)
  ELSE IF command = <<"b", "y", "t", "e">> THEN emit_byte(parse_num(p), output)
  ELSE IF command = <<"w", "o", "r", "d">> THEN emit_word_or_label_ref(p, output)
  ELSE Failed("Unknown data command.", <<>>)

------------------------------------------------------------------------------
\* main of the assembler, one step per iteration of its two loops

\* the head of an iteration: consume_whitespace(); if (is_at_end()) break;
\* Str name = parse_name(); bool is_label = consume_prefix(':');
Statement ==
  LET q == consume_whitespace(Parser)
      n == parse_name(q)
      c == consume_prefix(n.p, ":")
  IN [at_end |-> is_at_end(q), q |-> q, name |-> n, is_label |-> c.ok, p |-> c.p]

Assembling == asm_state \in {"code", "data"}
IsLabel == ~Statement.at_end /\ Statement.name.ok /\ Statement.is_label
IsCommand == ~Statement.at_end /\ Statement.name.ok /\ ~Statement.is_label
\* else if (strequal(command, str("@data"))) break;
IsData == asm_state = "code" /\ IsCommand /\ Statement.name.val = <<"@", "d", "a", "t", "a">>

\* the command of this iteration
CommandEffect ==
  LET m == MnemonicOf(Statement.name.val)
  IN IF asm_state = "data" THEN DataCommand(Statement.name.val, Statement.p)
     ELSE IF m = 0 THEN Failed("Unknown command.", <<>>)
     ELSE EMIT_OP(Mnemonics[m].opcode, Mnemonics[m].shape, Statement.p)

\* the interpreter does not run
VmIdle ==
  /\ byte_code = <<>> /\ reg = [i \in 0..7 |-> 0] /\ ip = 0 /\ mem = <<>>
  /\ call_stack = <<>> /\ call_stack_len = 0 /\ syscall_handlers = <<>>
  /\ open_files = {} /\ state = "idle" /\ status = <<>>
  /\ opcode = -1 /\ operand = -1 /\ handler = ""
  /\ code_touched = {} /\ mem_touched = {} /\ reg_touched = {} /\ cs_touched = {}
  /\ host_corrupt = FALSE

AsmFixed == UNCHANGED <<recipe, vars, load_vars>>

\* define_label without last_label = label
define_label_KeepsLast ==
  LET g == globalize_label(Statement.name.val, last_label)
  IN /\ Assembling /\ IsLabel /\ g.ok
     /\ labels' = Append(labels, [label |-> g.global, pos |-> Len(output) - start_of_section])
     /\ cursor' = Statement.p.cursor /\ current' = Statement.p.current
     /\ asm_step' = "define_label" /\ globalized' = <<g>>
     /\ AsmFixed
     /\ UNCHANGED <<last_label, output, patches, start_of_section,
                    num_labels_in_byte_code_section, pointer_to_memory_section_len,
                    asm_state, message, outfile>>

\* define_label(name), in either loop
define_label ==
  LET g == globalize_label(Statement.name.val, last_label)
  IN /\ Assembling /\ IsLabel /\ g.ok
     /\ last_label' = g.global
     /\ labels' = Append(labels, [label |-> g.global, pos |-> Len(output) - start_of_section])
     /\ cursor' = Statement.p.cursor /\ current' = Statement.p.current
     /\ asm_step' = "define_label" /\ globalized' = <<g>>
     /\ AsmFixed
     /\ UNCHANGED <<output, patches, start_of_section, num_labels_in_byte_code_section,
                    pointer_to_memory_section_len, asm_state, message, outfile>>

\* the step of a command with the effect e
Emit(e, step) ==
  /\ e.ok
  /\ output' = e.output
  /\ patches' = patches \o e.patches
  /\ cursor' = e.p.cursor /\ current' = e.p.current
  /\ asm_step' = step /\ globalized' = e.globalized
  /\ AsmFixed
  /\ UNCHANGED <<last_label, labels, start_of_section, num_labels_in_byte_code_section,
                 pointer_to_memory_section_len, asm_state, message, outfile>>

\* an instruction of the byte code section
ByteCodeCommand ==
  /\ asm_state = "code" /\ IsCommand /\ ~IsData
  /\ Emit(CommandEffect, "command")

\* a directive of the initial memory section
InitialMemoryCommand ==
  /\ asm_state = "data" /\ IsCommand
  /\ Emit(CommandEffect, "data")

Magic == <<"s", "o", "i", "l">>
pointer_to_byte_code_section_len == Len(Magic) + 1

\* the end of the first loop: the length of the byte code section is written and
\* the initial memory section is opened
CloseByteCodeSection ==
  LET p == IF Statement.at_end THEN Statement.q ELSE Statement.p
      byte_code_len == Len(output) - start_of_section
      out == overwrite_word(output, pointer_to_byte_code_section_len, byte_code_len)
  IN /\ asm_state = "code" /\ (Statement.at_end \/ IsData)
     /\ num_labels_in_byte_code_section' = Len(labels)
     /\ output' = Append(out, 1) \o WordBytes(0)
     /\ pointer_to_memory_section_len' = Len(output) + 1
     /\ start_of_section' = Len(output) + 9
     /\ asm_state' = "data"
     /\ cursor' = p.cursor /\ current' = p.current
     /\ asm_step' = "close_code" /\ globalized' = <<>>
     /\ AsmFixed
     /\ UNCHANGED <<last_label, labels, patches, message, outfile>>

\* the debug info of the label entries ls: pos, label.len and the label's bytes of each
RECURSIVE DebugEntries(_)
DebugEntries(ls) ==
  IF ls = <<>> THEN <<>>
  ELSE WordBytes(Head(ls).pos) \o WordBytes(Len(Head(ls).label)) \o StrBytes(Head(ls).label)
         \o DebugEntries(Tail(ls))

\* the end of the second loop without fix_patches
CloseInitialMemorySection_Unpatched ==
  LET memory_len == Len(output) - start_of_section
      out == Append(overwrite_word(output, pointer_to_memory_section_len, memory_len), 3)
      kept == SubSeq(labels, 1, num_labels_in_byte_code_section)
      debug_info == WordBytes(Len(kept)) \o DebugEntries(kept)
      final == out \o WordBytes(Len(debug_info)) \o debug_info
  IN /\ asm_state = "data" /\ Statement.at_end
     /\ labels' = kept
     /\ output' = final
     /\ outfile' = final
     /\ asm_state' = "done"
     /\ cursor' = Statement.q.cursor /\ current' = Statement.q.current
     /\ asm_step' = "close_data" /\ globalized' = <<>>
     /\ AsmFixed
     /\ UNCHANGED <<last_label, patches, start_of_section,
                    num_labels_in_byte_code_section, pointer_to_memory_section_len, message>>

\* the end of the second loop without labels.len = num_labels_in_byte_code_section
CloseInitialMemorySection_AllLabels ==
  LET fixed == fix_patches(output, patches, labels, 1)
      memory_len == Len(output) - start_of_section
      out == Append(overwrite_word(fixed.output, pointer_to_memory_section_len, memory_len), 3)
      debug_info == WordBytes(Len(labels)) \o DebugEntries(labels)
      final == out \o WordBytes(Len(debug_info)) \o debug_info
  IN /\ asm_state = "data" /\ Statement.at_end
     /\ fixed.ok
     /\ output' = final
     /\ outfile' = final
     /\ asm_state' = "done"
     /\ cursor' = Statement.q.cursor /\ current' = Statement.q.current
     /\ asm_step' = "close_data" /\ globalized' = <<>>
     /\ AsmFixed
     /\ UNCHANGED <<labels, last_label, patches, start_of_section,
                    num_labels_in_byte_code_section, pointer_to_memory_section_len, message>>

\* the end of the second loop: fix_patches, the length of the initial memory
\* section, the debug info section, the file
CloseInitialMemorySection ==
  LET fixed == fix_patches(output, patches, labels, 1)
      memory_len == Len(output) - start_of_section
      out == Append(overwrite_word(fixed.output, pointer_to_memory_section_len, memory_len), 3)
      kept == SubSeq(labels, 1, num_labels_in_byte_code_section)
      debug_info == WordBytes(Len(kept)) \o DebugEntries(kept)
      final == out \o WordBytes(Len(debug_info)) \o debug_info
  IN /\ asm_state = "data" /\ Statement.at_end
     /\ fixed.ok
     /\ labels' = kept
     /\ output' = final
     /\ outfile' = final
     /\ asm_state' = "done"
     /\ cursor' = Statement.q.cursor /\ current' = Statement.q.current
     /\ asm_step' = "close_data" /\ globalized' = <<>>
     /\ AsmFixed
     /\ UNCHANGED <<last_label, patches, start_of_section,
                    num_labels_in_byte_code_section, pointer_to_memory_section_len, message>>

\* the panic of this iteration, if it has one: its message and the calls of
\* globalize_label before it
NoPanic == [panics |-> FALSE, err |-> "", globalized |-> <<>>]
LabelPanics(g) ==
  [panics |-> ~g.ok, err |-> "Label has too many dots at the beginning.", globalized |-> <<g>>]
CommandPanics(e) == [panics |-> ~e.ok, err |-> e.err, globalized |-> e.globalized]
PatchPanics(fixed) == [panics |-> ~fixed.ok, err |-> "Label not defined.", globalized |-> <<>>]
Panics ==
  IF Statement.at_end
  THEN (IF asm_state = "data" THEN PatchPanics(fix_patches(output, patches, labels, 1))
        ELSE NoPanic)
  ELSE IF ~Statement.name.ok
  THEN [panics |-> TRUE, err |-> Statement.name.err, globalized |-> <<>>]
  ELSE IF Statement.is_label THEN LabelPanics(globalize_label(Statement.name.val, last_label))
  ELSE IF IsData THEN NoPanic
  ELSE CommandPanics(CommandEffect)

\* panic(message): the message, exit(1); no file is written
Exit(o) ==
  /\ o.panics
  /\ asm_state' = "failed"
  /\ message' = o.err
  /\ asm_step' = "panic" /\ globalized' = o.globalized
  /\ AsmFixed
  /\ UNCHANGED <<cursor, current, output, last_label, labels, patches, start_of_section,
                 num_labels_in_byte_code_section, pointer_to_memory_section_len, outfile>>

panic == Assembling /\ Exit(Panics)

------------------------------------------------------------------------------
\* The sources that are assembled

MaxLabelLines == 3
MaxDataLines == 2

\* lines that define or reference labels
LabelLines ==
  { <<"a", ":">>,  \* a:
    <<".", "b", ":">>,  \* .b:
    <<".", ".", "c", ":">>,  \* ..c:
    <<".", ".", ".", "d", ":">>,  \* ...d:
    <<"a", ".", "b", ":">>,  \* a.b:
    <<"j", "u", "m", "p", " ", ".", "b">>,  \* jump .b
    <<"j", "u", "m", "p", " ", ".", ".", "c">>  \* jump ..c
  }

\* byte code sections
CodeParts ==
  { <<>>,
    <<"n", "o", "p", NL>>,  \* nop\n
    <<"x", ":", NL, "m", "o", "v", "e", " ", "a", " ", "b", NL>>,  \* x:\nmove a b\n
    <<"m", "o", "v", "e", "i", " ", "a", " ", "5", NL, "x", ":", NL>>,  \* movei a 5\nx:\n
    <<"m", "o", "v", "e", "i", " ", "b", " ", "x", NL>>,  \* movei b x\n
    <<"m", "o", "v", "e", "i", "b", " ", "a", " ", "7", " ", "p", "u", "s", "h", " ", "s", "p", NL>>,  \* moveib a 7 push sp\n
    <<"s", "y", "s", "c", "a", "l", "l", " ", "1", NL, "c", "a", "l", "l", " ", "x", NL>>,  \* syscall 1\ncall x\n
    <<"x", ":", " ", "j", "u", "m", "p", " ", ".", "y", NL, ".", "y", ":", " ", "r", "e", "t", NL>>,  \* x: jump .y\n.y: ret\n
    <<"|", " ", "s", "o", "i", "l", NL, "f", "o", "o", NL>>,  \* | soil\nfoo\n
    <<"a", "d", "d", " ", "a", " ", "s", "t", NL>>  \* add a st\n
  }

\* lines of an initial memory section
DataLines ==
  { <<"w", "o", "r", "d", " ", "5">>,  \* word 5
    <<"w", "o", "r", "d", " ", "0", "x", "1", "f">>,  \* word 0x1f
    <<"w", "o", "r", "d", " ", "x">>,  \* word x
    <<"w", "o", "r", "d", " ", ".", "y">>,  \* word .y
    <<"b", "y", "t", "e", " ", "7">>,  \* byte 7
    <<"b", "y", "t", "e", " ", "1", "7">>,  \* byte 17
    <<"b", "y", "t", "e", " ", "3", "0", "0">>,  \* byte 300
    <<"s", "t", "r", " ", QUOTE, "h", "i", QUOTE>>,  \* str "hi"
    <<"x", ":">>,  \* x:
    <<".", "y", ":">>,  \* .y:
    <<"x", ":", " ", "b", "y", "t", "e", " ", "1">>  \* x: byte 1
  }

\* further sources
OtherSources ==
  { <<"o", "u", "t", "e", "r", ":", NL, ".", "i", "n", "n", "e", "r", ":", NL, "j", "u", "m", "p", " ", ".", ".", "o", "t", "h", "e", "r", NL, ".", "o", "t", "h", "e", "r", ":", NL>>,  \* outer:\n.inner:\njump ..other\n.other:\n
    <<"o", "u", "t", "e", "r", ":", NL, ".", "i", "n", "n", "e", "r", ":", NL, "j", "u", "m", "p", " ", ".", ".", "o", "t", "h", "e", "r", NL, ".", "o", "t", "h", "e", "r", ":">>,  \* outer:\n.inner:\njump ..other\n.other:
    <<"j", "u", "m", "p", " ", "x", NL, "@", "d", "a", "t", "a", NL, "x", ":", NL, "b", "y", "t", "e", " ", "1", NL>>,  \* jump x\n@data\nx:\nbyte 1\n
    <<"x", ":", NL, "n", "o", "p", NL, "@", "d", "a", "t", "a", NL, "n", "o", "p", NL, "j", "u", "m", "p", " ", "x">>,  \* x:\nnop\n@data\nnop\njump x
    <<"m", "o", "v", "e", "i", " ", "a", NL>>,  \* movei a\n
    <<"m", "o", "v", "e", " ", "a", " ", "q", NL>>,  \* move a q\n
    <<"s", "t", "r", " ", QUOTE, "h", "i", QUOTE, NL>>,  \* str "hi"\n
    <<"@", "d", "a", "t", "a", NL, "s", "t", "r", " ", QUOTE, "h", "i", NL>>,  \* @data\nstr "hi\n
    <<"@", "d", "a", "t", "a", NL, "w", "o", "r", "d", NL>>,  \* @data\nword\n
    <<"@", "d", "a", "t", "a", NL, "f", "o", "o", NL>>,  \* @data\nfoo\n
    <<"a", ".", ":", NL, ".", "b", ":", NL, ".", ".", "c", ":", NL>>,  \* a.:\n.b:\n..c:\n
    <<"1", ":", NL>>,  \* 1:\n
    <<":", NL>>,  \* :\n
    <<"@", "d", "a", "t", "a", NL, "b", "y", "t", "e", " ", "0", "|", "c", NL>>,  \* @data\nbyte 0|c\n
    <<"@", "d", "a", "t", "a", NL, "b", "y", "t", "e", " ", "0">>,  \* @data\nbyte 0
    <<"@", "d", "a", "t", "a", NL, "b", "y", "t", "e", " ", "0", NL>>,  \* @data\nbyte 0\n
    <<"@", "d", "a", "t", "a", NL, "b", "y", "t", "e", " ", "_", NL>>,  \* @data\nbyte _\n
    <<"@", "d", "a", "t", "a", NL, "b", "y", "t", "e", " ", "0", "b", "1", "0", "1", NL>>,  \* @data\nbyte 0b101\n
    <<"@", "d", "a", "t", "a", NL, "b", "y", "t", "e", " ", "1", "_", "0", NL>>,  \* @data\nbyte 1_0\n
    <<"@", "d", "a", "t", "a", NL, "w", "o", "r", "d", " ", "0", "x", "_", "f", "_", "f", NL>>,  \* @data\nword 0x_f_f\n
    <<"@", "d", "a", "t", "a", NL, "b", "y", "t", "e", " ", "0", "7", NL>>,  \* @data\nbyte 07\n
    <<"@", "d", "a", "t", "a", NL, "b", "y", "t", "e", " ", "0", "x", NL>>,  \* @data\nbyte 0x\n
    <<"@", "d", "a", "t", "a", NL, "w", "o", "r", "d", " ", "0", "b", "_", NL>>,  \* @data\nword 0b_\n
    <<"@", "d", "a", "t", "a", NL, "b", "y", "t", "e", " ", "0", "|", "c", NL, "b", "y", "t", "e", " ", "1", NL>>,  \* @data\nbyte 0|c\nbyte 1\n
    <<"@", "d", "a", "t", "a", NL, "w", "o", "r", "d", " ", "0", " ", "b", "y", "t", "e", " ", "0", "x", "g", NL>>  \* @data\nword 0 byte 0xg\n
  }

\* the lines of ls, a newline after each
RECURSIVE Lines(_)
Lines(ls) == IF ls = <<>> THEN <<>> ELSE Head(ls) \o <<NL>> \o Lines(Tail(ls))

\* the sequences of at most n members of S
UpTo(S, n) == UNION {[1..k -> S] : k \in 0..n}

\* text, with and without its final newline
MaybeUnterminated(text) ==
  IF text = <<>> THEN {text} ELSE {text, SubSeq(text, 1, Len(text) - 1)}

\* one instruction of every mnemonic, with operands of its shape
Operands(shape) ==
  CASE shape = "op" -> <<>>
    [] shape = "reg" -> <<" ", "c">>
    [] shape = "reg_reg" -> <<" ", "c", " ", "d">>
    [] shape = "reg_byte" -> <<" ", "c", " ", "7">>
    [] shape = "reg_word" -> <<" ", "c", " ", "3", "0", "0">>
    [] shape = "byte" -> <<" ", "9">>
    [] shape = "word" -> <<" ", "9">>
    [] shape = "label" -> <<" ", "x">>
InstructionSources ==
  {<<"x", ":", " ">> \o Mnemonics[i].name \o Operands(Mnemonics[i].shape) \o <<NL>> :
     i \in 1..Len(Mnemonics)}
    \cup {<<"s", "y", "s", "c", "a", "l", "l", " ", DigitChars[n + 1], NL>> : n \in 0..8}
    \cup {<<"d", "i", "v", " ", "b", " ", "s", "p", NL>>,  \* div b sp\n
          <<"r", "e", "m", " ", "b", " ", "s", "p", NL>>,  \* rem b sp\n
          <<"c", "a", "l", "l", " ", "x", NL, "x", ":", NL>>,  \* call x\nx:\n
          \* movei c 300\n, often enough for a file longer than the largest int
          Lines([i \in 1..(IntMod \div 20) |-> <<"m", "o", "v", "e", "i", " ", "c", " ", "3", "0", "0">>])}
LabelSources == UNION {MaybeUnterminated(Lines(ls)) : ls \in UpTo(LabelLines, MaxLabelLines)}
DataParts ==
  {<<>>} \cup UNION {MaybeUnterminated(Lines(<<<<"@", "d", "a", "t", "a">>>> \o ls)) : ls \in UpTo(DataLines, MaxDataLines)}
Sources ==
  LabelSources \cup {c \o d : c \in CodeParts, d \in DataParts} \cup OtherSources
    \cup InstructionSources

\* main up to its first loop: the file is read, the parser, the label table and
\* the patch list are initialized, the magic bytes and the header of the byte
\* code section are emitted
AsmInit ==
  /\ VmIdle
  /\ LoadIdle
  /\ recipe \in Sources
  /\ cursor = 1
  /\ current = IF recipe = <<>> THEN NUL ELSE recipe[1]
  /\ output = StrBytes(Magic) \o <<0>> \o WordBytes(0)
  /\ start_of_section = Len(Magic) + 9
  /\ last_label = <<>> /\ labels = <<>> /\ patches = <<>>
  /\ num_labels_in_byte_code_section = 0
  /\ pointer_to_memory_section_len = 0
  /\ asm_state = "code" /\ message = "" /\ outfile = <<>>
  /\ asm_step = "" /\ globalized = <<>>

AsmNext ==
  \/ define_label
  \/ ByteCodeCommand
  \/ InitialMemoryCommand
  \/ CloseByteCodeSection
  \/ CloseInitialMemorySection
  \/ panic

all_vars == <<vars, asm_vars, load_vars>>
AsmSpec == AsmInit /\ [][AsmNext]_all_vars

------------------------------------------------------------------------------
\* Claims about the assembler, under AsmSpec

\* the number of dots of a label, and of its leading dots
count_dots(L) == Cardinality({i \in 1..Len(L) : L[i] = "."})
LeadingDots(R) ==
  CHOOSE n \in 0..Len(R) : (\A i \in 1..n : R[i] = ".") /\ (n = Len(R) \/ R[n + 1] # ".")
WithoutLeadingDots(R) == SubSeq(R, LeadingDots(R) + 1, Len(R))
\* the k leftmost dot-separated components of L, the dots between them included
LeftmostComponents(L, k) ==
  IF k = 0 THEN <<>>
  ELSE IF count_dots(L) < k THEN L
  ELSE SubSeq(L, 1, (CHOOSE i \in 1..Len(L) :
                       L[i] = "." /\ count_dots(SubSeq(L, 1, i)) = k) - 1)
\* the calls globalize_label(R) with last_label = L of the last step
Globalized == {globalized[i] : i \in 1..Len(globalized)}

\* C13 as stated: a label R with n >= 1 leading dots, n <= count_dots(L) + 1, becomes
\* the (count_dots(L) + 1) - (n - 1) leftmost components of the last label L, a dot
\* and R without its leading dots; with n = 0 it is returned unchanged.
C13_GlobalizeKeepsAllButNMinusOne ==
  \A g \in Globalized :
    LET n == LeadingDots(g.label)
    IN /\ (n >= 1 /\ n <= count_dots(g.last) + 1)
            => /\ g.ok
               /\ g.global = LeftmostComponents(g.last, (count_dots(g.last) + 1) - (n - 1))
                               \o <<".">> \o WithoutLeadingDots(g.label)
       /\ n = 0 => g.ok /\ g.global = g.label

\* C13, amended: a label R with n >= 1 leading dots, n <= count_dots(L) + 1, becomes
\* the n leftmost components of the last label L, a dot and R without its leading
\* dots; with n = 0 it is returned unchanged.
C13_GlobalizeKeepsNComponents ==
  \A g \in Globalized :
    LET n == LeadingDots(g.label)
    IN /\ (n >= 1 /\ n <= count_dots(g.last) + 1)
            => /\ g.ok
               /\ g.global = LeftmostComponents(g.last, n)
                               \o <<".">> \o WithoutLeadingDots(g.label)
       /\ n = 0 => g.ok /\ g.global = g.label

\* a label with one leading dot was globalized against a last label of three
\* components
C13_Witness ==
  \E g \in Globalized :
    g.ok /\ LeadingDots(g.label) = 1 /\ count_dots(g.last) = 2 /\ asm_state # "failed"

\* C14: globalize_label panics, with "Label has too many dots at the beginning.",
\* exactly when the label has more leading dots than count_dots(L) + 1; otherwise,
\* the empty last label with at most one leading dot included, it returns a name.
C14_TooManyDots ==
  \A g \in Globalized :
    /\ ~g.ok <=> LeadingDots(g.label) > count_dots(g.last) + 1
    /\ ~g.ok => /\ asm_state = "failed"
                /\ message = "Label has too many dots at the beginning."
    /\ (g.last = <<>> /\ LeadingDots(g.label) <= 1) => g.ok /\ asm_state # "failed"

\* a label with three leading dots after a last label of two components
C14_Witness ==
  \E g \in Globalized :
    /\ ~g.ok /\ LeadingDots(g.label) = 3 /\ count_dots(g.last) = 1
    /\ asm_state = "failed" /\ outfile = <<>>

\* the source outer: .inner: jump ..other .other:, a line each
C15Source == <<"o", "u", "t", "e", "r", ":", NL, ".", "i", "n", "n", "e", "r", ":", NL, "j", "u", "m", "p", " ", ".", ".", "o", "t", "h", "e", "r", NL, ".", "o", "t", "h", "e", "r", ":", NL>>
\* the names of the label table, in the order of their definition
LabelNames(ls) == [i \in 1..Len(ls) |-> ls[i].label]
\* the word of the output at pos
OutputWordAt(out, pos) == SubSeq(out, pos + 1, pos + 8)
\* a reference is globalized against last_label and leaves it; a definition is
\* globalized against last_label and becomes it
ReferencesAndDefinitions ==
  /\ asm_step' \in {"command", "data"}
       => /\ last_label' = last_label
          /\ labels' = labels
          /\ \A i \in 1..Len(globalized') :
               /\ globalized'[i].last = last_label
               /\ patches' = Append(patches, [label |-> globalized'[i].global,
                                               where |-> Len(output') - 8])
  /\ asm_step' = "define_label"
       => /\ Len(globalized') = 1
          /\ globalized'[1].last = last_label
          /\ last_label' = globalized'[1].global
          /\ labels' = Append(labels, [label |-> last_label',
                                       pos |-> Len(output) - start_of_section])
  /\ Assembling' => last_label' = IF labels' = <<>> THEN <<>>
                                  ELSE labels'[Len(labels')].label

\* C15 as stated: the source outer: .inner: jump ..other .other: is assembled; its
\* labels are outer, outer.inner and outer.other in this order and the operand of
\* the jump is the offset of outer.other.  A reference is globalized against the
\* last label defined before it; a definition updates the last label, a reference
\* does not.
C15_ExampleAssembles ==
  [][/\ (recipe = C15Source /\ asm_state' \in {"done", "failed"})
          => /\ asm_state' = "done"
             /\ LabelNames(labels') = <<<<"o", "u", "t", "e", "r">>, <<"o", "u", "t", "e", "r", ".", "i", "n", "n", "e", "r">>, <<"o", "u", "t", "e", "r", ".", "o", "t", "h", "e", "r">>>>
             /\ OutputWordAt(outfile', 14) = WordBytes(labels'[3].pos)
     /\ ReferencesAndDefinitions]_all_vars

\* C15, amended: assembling the source outer: .inner: jump ..other .other: fails
\* with "Label not defined." and writes no file; its labels are outer, outer.inner
\* and outer.other in this order, and the operand of the jump refers to
\* outer.inner.other, which is not defined.  A reference is globalized against the
\* last label defined before it; a definition updates the last label, a reference
\* does not.
C15_ExampleFails ==
  [][/\ (recipe = C15Source /\ asm_state' \in {"done", "failed"})
          => /\ asm_state' = "failed" /\ message' = "Label not defined."
             /\ outfile' = <<>>
             /\ LabelNames(labels') = <<<<"o", "u", "t", "e", "r">>, <<"o", "u", "t", "e", "r", ".", "i", "n", "n", "e", "r">>, <<"o", "u", "t", "e", "r", ".", "o", "t", "h", "e", "r">>>>
             /\ patches' = <<[label |-> <<"o", "u", "t", "e", "r", ".", "i", "n", "n", "e", "r", ".", "o", "t", "h", "e", "r">>, where |-> 14]>>
     /\ ReferencesAndDefinitions]_all_vars

\* the example has been assembled to its end
C15_Witness ==
  /\ recipe = C15Source /\ asm_state = "failed" /\ Len(labels) = 3
  /\ Len(patches) = 1 /\ last_label = <<"o", "u", "t", "e", "r", ".", "o", "t", "h", "e", "r">>

\* the end of the input in the initial memory section: the step that ends the
\* assembly with the file, or with a panic of fix_patches
EndOfAssembly ==
  /\ asm_state = "data"
  /\ \/ asm_step' = "close_data"
     \/ asm_step' = "panic" /\ message' = "Label not defined."
\* the patches of the byte code section and those of the initial memory section
InByteCode(patch) == patch.where < pointer_to_memory_section_len
\* the labels of the section a patch was pushed in
SectionLabels(patch) ==
  IF InByteCode(patch) THEN SubSeq(labels, 1, num_labels_in_byte_code_section)
  ELSE SubSeq(labels, num_labels_in_byte_code_section + 1, Len(labels))
Defines(ls, name) == \E i \in 1..Len(ls) : ls[i].label = name
FirstDefinition(ls, name) ==
  ls[CHOOSE i \in 1..Len(ls) : ls[i].label = name /\ ~Defines(SubSeq(ls, 1, i - 1), name)]
Patched == {patches[i] : i \in 1..Len(patches)}

ByteCodeLen(out) == OutputWordAt(out, Len(Magic) + 1)
MemoryLen(out) == OutputWordAt(out, pointer_to_memory_section_len)

C18_DuplicateLabelFails ==
  /\ asm_state = "code"
       => \A i, j \in 1..Len(labels) : labels[i].label = labels[j].label => i = j
  /\ asm_state \in {"data", "done"}
       => \A i, j \in 1..Len(labels) :
            /\ labels[i].label = labels[j].label
            /\ (i <= num_labels_in_byte_code_section <=> j <= num_labels_in_byte_code_section)
            => i = j

\* the directive of this iteration of the initial memory section, and the text of
\* its operand in the source: from the first character after the directive and
\* the whitespace that follows it to the next whitespace or the end of the source
Directive(name) == asm_state = "data" /\ IsCommand /\ Statement.name.val = name
OperandText ==
  LET start == Statement.p.cursor
      end == CHOOSE e \in (start - 1)..Len(recipe) :
               /\ \A i \in start..e : ~is_whitespace(recipe[i])
               /\ e = Len(recipe) \/ is_whitespace(recipe[e + 1])
  IN SubSeq(recipe, start, end)
HexChars == DigitChars \o <<"a", "b", "c", "d", "e", "f">>
\* the value of the numeral text in the digits ds
RECURSIVE NumeralValue(_, _)
NumeralValue(text, ds) ==
  IF text = <<>> THEN 0
  ELSE NumeralValue(SubSeq(text, 1, Len(text) - 1), ds) * Len(ds)
         + IndexIn(ds, text[Len(text)]) - 1
IsNumeral(text, ds) == text # <<>> /\ \A i \in 1..Len(text) : IndexIn(ds, text[i]) > 0
IsHex(text) == Len(text) > 2 /\ SubSeq(text, 1, 2) = <<"0", "x">>
IsLiteral(text) ==
  IF IsHex(text) THEN IsNumeral(SubSeq(text, 3, Len(text)), HexChars)
  ELSE IsNumeral(text, DigitChars)
LiteralValue(text) ==
  IF IsHex(text) THEN NumeralValue(SubSeq(text, 3, Len(text)), HexChars)
  ELSE NumeralValue(text, DigitChars)
IsQuoted(text) == Len(text) >= 2 /\ text[1] = QUOTE /\ text[Len(text)] = QUOTE
IsLabelName(text) ==
  /\ text # <<>> /\ ~is_num(text[1]) /\ text[1] # QUOTE
  /\ \A i \in 1..Len(text) : text[i] # ":"
  /\ LeadingDots(text) <= count_dots(last_label) + 1

\* C19: in the initial memory section, word N with a literal N appends the 8
\* little-endian bytes of N and pushes no patch; word name appends 8 zero bytes
\* and pushes a patch of the globalized name; byte N appends one byte; str "..."
\* appends the bytes of the string.
C19_DataDirectives ==
  [][/\ (Directive(<<"w", "o", "r", "d">>) /\ IsLiteral(OperandText))
          => /\ asm_step' = "data" /\ patches' = patches
             /\ output' = output \o WordBytes(LiteralValue(OperandText))
     /\ (Directive(<<"w", "o", "r", "d">>) /\ IsLabelName(OperandText))
          => /\ asm_step' = "data" /\ output' = output \o WordBytes(0)
             /\ Len(globalized') = 1 /\ globalized'[1].label = OperandText
             /\ patches' = Append(patches, [label |-> globalized'[1].global,
                                            where |-> Len(output)])
     /\ (Directive(<<"b", "y", "t", "e">>) /\ IsLiteral(OperandText))
          => /\ asm_step' = "data" /\ patches' = patches
             /\ Len(output') = Len(output) + 1
             /\ SubSeq(output', 1, Len(output)) = output
     /\ (Directive(<<"s", "t", "r">>) /\ IsQuoted(OperandText))
          => /\ asm_step' = "data" /\ patches' = patches
             /\ output' = output \o StrBytes(SubSeq(OperandText, 2, Len(OperandText) - 1))]_all_vars

\* n label entries read from the bytes bs: pos, the length of the name, the name
RECURSIVE ReadLabels(_, _)
ReadLabels(bs, n) ==
  IF n = 0 \/ Len(bs) < 16 THEN <<>>
  ELSE LET len == LEWord(SubSeq(bs, 9, 16))
       IN <<[pos |-> LEWord(SubSeq(bs, 1, 8)), name |-> SubSeq(bs, 17, 16 + len)]>>
            \o ReadLabels(SubSeq(bs, 17 + len, Len(bs)), n - 1)
\* the bytes that n label entries read from bs take
RECURSIVE LabelsSize(_, _)
LabelsSize(bs, n) ==
  IF n = 0 \/ Len(bs) < 16 THEN 0
  ELSE 16 + LEWord(SubSeq(bs, 9, 16))
         + LabelsSize(SubSeq(bs, 17 + LEWord(SubSeq(bs, 9, 16)), Len(bs)), n - 1)
\* the offset of the payload of the byte code section in the output
ByteCodeStart == Len(Magic) + 9

\* C20: the debug info section of the file is the number of labels of the byte code
\* section and then these labels, each once, in the order of their definition, with
\* pos the offset of the label from the start of the byte code; no label of the
\* initial memory section is in it.
C20_DebugInfoIsByteCodeLabels ==
  [][/\ (asm_state = "code" /\ asm_step' = "define_label")
          => /\ Len(labels') = Len(labels) + 1
             /\ labels'[Len(labels')].pos = Len(output) - ByteCodeStart
     /\ asm_step' = "close_code"
          => num_labels_in_byte_code_section' = Len(labels) /\ labels' = labels
     /\ (asm_state = "data" /\ asm_state' = "data")
          => /\ UNCHANGED num_labels_in_byte_code_section
             /\ SubSeq(labels', 1, num_labels_in_byte_code_section)
                  = SubSeq(labels, 1, num_labels_in_byte_code_section)
     /\ asm_step' = "close_data"
          => LET section == SubSeq(outfile', Len(output) + 1, Len(outfile'))
                 payload == SubSeq(section, 10, Len(section))
                 num_labels == LEWord(SubSeq(payload, 1, 8))
                 entries == SubSeq(payload, 9, Len(payload))
             IN /\ section[1] = 3
                /\ LEWord(SubSeq(section, 2, 9)) = Len(payload)
                /\ num_labels = num_labels_in_byte_code_section
                /\ LabelsSize(entries, num_labels) = Len(entries)
                /\ ReadLabels(entries, num_labels)
                     = [i \in 1..num_labels |->
                          [pos |-> labels[i].pos, name |-> StrBytes(labels[i].label)]]]_all_vars

\* a file was written after labels were defined in both sections
C20_Witness ==
  /\ asm_state = "done" /\ Len(labels) >= 1
  /\ last_label # <<>> /\ ~Defines(labels, last_label)
  /\ outfile # <<>>

\* the first position at or after i of the text that is neither whitespace nor
\* inside a | comment (Len(text) + 1 if there is none)
RECURSIVE SkipBlank(_, _, _)
SkipBlank(text, i, in_comment) ==
  IF i > Len(text) THEN i
  ELSE IF in_comment THEN SkipBlank(text, i + 1, text[i] # NL)
  ELSE IF is_whitespace(text[i]) THEN SkipBlank(text, i + 1, FALSE)
  ELSE IF text[i] = "|" THEN SkipBlank(text, i + 1, TRUE)
  ELSE i
\* the token of the text at or after position i: every character from there to
\* the next whitespace or colon or to the last character of the text
SourceToken(text, i) ==
  LET s == SkipBlank(text, i, FALSE)
      e == CHOOSE e \in (s - 1)..Len(text) :
             /\ \A k \in s..e : is_name(text[k])
             /\ e = Len(text) \/ ~is_name(text[e + 1])
  IN SubSeq(text, s, e)

\* C29: the assembler processes every byte of the source.  Wherever a statement
\* starts, the name main reads is the whole token of the source, up to the next
\* whitespace or colon or up to and including the final byte of the source, as
\* it is when a newline follows the source; the final byte is never dropped.
C29_FinalByteProcessed ==
  (Assembling /\ cursor >= 1 /\ SourceToken(recipe, cursor) # <<>>
     /\ SourceToken(recipe, cursor)[1] # QUOTE)
    => /\ ~Statement.at_end /\ Statement.name.ok
       /\ Statement.name.val = SourceToken(recipe, cursor)

\* the same, of the sources that end with a newline
C29_TerminatedSourcesProcessed ==
  (recipe # <<>> /\ recipe[Len(recipe)] = NL) => C29_FinalByteProcessed

\* the literal of the directive of this iteration: its operand text, up to a |
\* comment
LiteralText ==
  LET n == CHOOSE n \in 0..Len(OperandText) :
             /\ \A i \in 1..n : OperandText[i] # "|"
             /\ n = Len(OperandText) \/ OperandText[n + 1] = "|"
  IN SubSeq(OperandText, 1, n)
RECURSIVE WithoutUnderscores(_)
WithoutUnderscores(text) ==
  IF text = <<>> THEN <<>>
  ELSE IF Head(text) = "_" THEN WithoutUnderscores(Tail(text))
  ELSE <<Head(text)>> \o WithoutUnderscores(Tail(text))
\* the radix prefix of a literal, the digits of its base, and what follows the prefix
RadixPrefix(text) ==
  IF Len(text) >= 2 /\ SubSeq(text, 1, 2) \in {<<"0", "b">>, <<"0", "x">>}
  THEN SubSeq(text, 1, 2) ELSE <<>>
RadixDigits(text) ==
  IF RadixPrefix(text) = <<"0", "b">> THEN <<"0", "1">>
  ELSE IF RadixPrefix(text) = <<"0", "x">> THEN HexChars
  ELSE DigitChars
RadixBody(text) == SubSeq(text, Len(RadixPrefix(text)) + 1, Len(text))
\* 0bDIGITS, 0xDIGITS or DIGITS, underscores allowed among the digits
IsNumberLiteral(text) == IsNumeral(WithoutUnderscores(RadixBody(text)), RadixDigits(text))
NumberValue(text) == NumeralValue(WithoutUnderscores(RadixBody(text)), RadixDigits(text))
\* a literal without a digit: underscores, or a radix prefix and nothing but underscores
HasNoDigit(text) == text # <<>> /\ WithoutUnderscores(RadixBody(text)) = <<>>
\* this iteration is a directive that calls parse_num
ParsesNumber ==
  \/ Directive(<<"b", "y", "t", "e">>)
  \/ Directive(<<"w", "o", "r", "d">>) /\ is_num(Statement.p.current)
NumberBytes(n) ==
  IF Directive(<<"b", "y", "t", "e">>) THEN <<n % 256>> ELSE WordBytes(n % WordMod)

\* C25: parse_num returns the value of the literal in its base, underscores
\* ignored: 0bDIGITS is binary, 0xDIGITS hexadecimal with lowercase digits, DIGITS
\* decimal, and the literal 0 is zero whether a space, a newline, a | comment or
\* the end of the input follows it; a literal without a digit is rejected.
C25_ParseNumValue ==
  [][ParsesNumber =>
       /\ IsNumberLiteral(LiteralText)
            => /\ asm_step' = "data"
               /\ output' = output \o NumberBytes(NumberValue(LiteralText))
       /\ HasNoDigit(LiteralText) => asm_state' = "failed"]_all_vars

\* the same, of the literals that whitespace follows, other than decimal
\* literals with a leading zero and literals whose only characters after the
\* radix prefix are underscores
C25_ParseNumBeforeWhitespace ==
  [][(/\ ParsesNumber
      /\ Statement.p.cursor + Len(LiteralText) <= Len(recipe)
      /\ is_whitespace(recipe[Statement.p.cursor + Len(LiteralText)])
      /\ (LiteralText[1] = "0" /\ RadixPrefix(LiteralText) = <<>>) => LiteralText = <<"0">>
      /\ HasNoDigit(LiteralText) => RadixBody(LiteralText) = <<>>)
       => /\ IsNumberLiteral(LiteralText)
            => /\ asm_step' = "data"
               /\ output' = output \o NumberBytes(NumberValue(LiteralText))
          /\ HasNoDigit(LiteralText) => asm_state' = "failed"]_all_vars

\* the positions of the output inside the slot of a patch, and inside the length
\* field of the initial memory section
InSlot(patch, k) == k - 1 >= patch.where /\ k - 1 < patch.where + 8
InMemoryLen(k) == k - 1 >= pointer_to_memory_section_len /\ k - 1 < pointer_to_memory_section_len + 8

\* C26: in the file of a successful assembly every slot that emit_label_ref
\* created holds, little-endian, the offset in its section at which the label of
\* the globalized name of the reference was defined (the first such label), be the
\* label defined before or after the reference, and patching changes no byte of
\* the output outside the slots.
C26_SlotsHoldLabelOffsets ==
  [][asm_step' = "close_data" =>
       /\ \A patch \in Patched :
            /\ Defines(labels, patch.label)
            /\ \A i \in 1..Len(labels) :
                 (labels[i].label = patch.label
                    /\ \A j \in 1..(i - 1) : labels[j].label # patch.label)
                   => LEWord(OutputWordAt(outfile', patch.where)) = labels[i].pos
       /\ \A k \in 1..Len(output) :
            (~InMemoryLen(k) /\ \A patch \in Patched : ~InSlot(patch, k))
              => outfile'[k] = output[k]]_all_vars

\* a file was written in which a slot of the byte code holds the offset of a label
\* that is defined after the slot, and the byte after the slot is not zero
C26_Witness ==
  /\ asm_state = "done" /\ outfile # <<>>
  /\ \E patch \in Patched :
       /\ InByteCode(patch) /\ Defines(labels, patch.label)
       /\ ByteCodeStart + FirstDefinition(labels, patch.label).pos > patch.where
       /\ LEWord(OutputWordAt(outfile, patch.where)) = FirstDefinition(labels, patch.label).pos
       /\ outfile[patch.where + 9] # 0

------------------------------------------------------------------------------
\* The readers of a binary.  init_vm (src/soil.c) and parse_binary
\* (src/disassemble.c) parse the file with the same macros and the same loop; they
\* differ in the section of the initial memory.  A step is the check of the magic
\* bytes or one iteration of the loop over the sections.  g is the byte a read
\* before the start of bin yields.

\* init_vm(bin, len) and parse_binary(bin, len): the size_t len, converted to int
bin_len == IntOf(Len(bin))
IntRange == (-(IntMod \div 2))..(IntMod \div 2 - 1)
\* bin[i]; main stored a zero after the bytes of the file
BinAt(i, g) == IF i >= 0 /\ i < Len(bin) THEN bin[i + 1] ELSE IF i = Len(bin) THEN 0 ELSE g
BinRange(c, n, g) == [k \in 1..n |-> BinAt(c + k - 1, g)]

\* the macros at cursor c: the value and the cursor after it, or not ok:
\* panic(1, "binary incomplete")
Incomplete == [ok |-> FALSE, val |-> 0, cursor |-> 0]
EAT_BYTE(c, g) ==
  IF c >= bin_len THEN Incomplete ELSE [ok |-> TRUE, val |-> BinAt(c, g), cursor |-> c + 1]
EAT_WORD(c, g) ==
  IF c > bin_len - 8 THEN Incomplete
  ELSE [ok |-> TRUE, val |-> LEWord(BinRange(c, 8, g)), cursor |-> c + 8]

\* what a step of a reader leaves: the state it is in, the message of its panic,
\* its cursor, its labels, byte_code and mem
VmUnread ==
  UNCHANGED <<ip, call_stack, call_stack_len, open_files, status, opcode, operand, handler,
              code_touched, mem_touched, reg_touched, cs_touched, host_corrupt>>
Reading(st, msg, step, c, ls, code, memory) ==
  /\ load_state' = st /\ load_message' = msg /\ load_step' = step
  /\ bin_cursor' = c /\ loaded_labels' = ls /\ byte_code' = code /\ mem' = memory
  /\ UNCHANGED <<bin, reader, dump_cursor, dump_line, reg, syscall_handlers, state, asm_vars>>
  /\ VmUnread
ReaderPanics(msg, step, code, memory) ==
  Reading("failed", msg, step, bin_cursor, loaded_labels, code, memory)

\* main of the reader r reads the file (the file the assembler wrote, if the
\* assembler ran) and calls init_vm or parse_binary, which runs up to the check of
\* the magic bytes: init_vm clears the registers, sets SP, allocates the arena and
\* fills the syscall table
StartLoad ==
  \E r \in {"vm", "dis"}, fill \in Garbage :
    /\ load_state = "idle" /\ asm_state \in {"idle", "done"}
    /\ bin' = IF asm_state = "done" THEN outfile ELSE bin
    /\ reader' = r
    /\ bin_cursor' = 0
    /\ load_state' = "magic" /\ load_step' = "start"
    /\ IF r = "vm"
       THEN /\ reg' = [i \in 0..7 |-> IF i = SP THEN MEMORY_SIZE ELSE 0]
            /\ mem' = [i \in 1..MEMORY_SIZE |-> fill]
            /\ syscall_handlers' = init_syscalls
       ELSE UNCHANGED <<reg, mem, syscall_handlers>>
    /\ UNCHANGED <<byte_code, state, loaded_labels, load_message, dump_cursor, dump_line,
                   asm_vars>>
    /\ VmUnread

\* CHECK_MAGIC_BYTE('s') ... CHECK_MAGIC_BYTE('l'): the first byte that is missing
\* or differs (0 if there is none)
MagicFault ==
  IF \E k \in 1..4 : k - 1 >= bin_len \/ bin[k] # StrBytes(Magic)[k]
  THEN CHOOSE k \in 1..4 :
         /\ k - 1 >= bin_len \/ bin[k] # StrBytes(Magic)[k]
         /\ \A j \in 1..(k - 1) : j - 1 < bin_len /\ bin[j] = StrBytes(Magic)[j]
  ELSE 0
CheckMagic ==
  /\ load_state = "magic"
  /\ IF MagicFault = 0
     THEN Reading("sections", "", "magic", 4, loaded_labels, byte_code, mem)
     ELSE IF MagicFault - 1 >= bin_len
     THEN ReaderPanics("binary incomplete", "magic", byte_code, mem)
     ELSE ReaderPanics("magic bytes don't match", "magic", byte_code, mem)

\* the head of an iteration: while (cursor < bin_len) {
\* int section_type = EAT_BYTE; int section_len = EAT_WORD;
AtSection == load_state = "sections" /\ bin_cursor < bin_len
SectionHead(type, len) ==
  [ok |-> type.ok /\ len.ok, type |-> type.val, declared |-> len.val,
   len |-> IntOf(len.val), cursor |-> len.cursor]
Section(g) == SectionHead(EAT_BYTE(bin_cursor, g), EAT_WORD(bin_cursor + 1, g))
\* the number of bytes the loop for (j = 0; j < n; j++) ... = EAT_BYTE reads
\* from cursor c before it ends or panics
Eaten(c, n) == IF n <= 0 \/ bin_len <= c THEN 0 ELSE min(n, bin_len - c)

\* the file ends inside the section header
SectionHeaderPanic ==
  \E g \in Garbage :
    /\ AtSection /\ ~Section(g).ok
    /\ ReaderPanics("binary incomplete", "header", byte_code, mem)

\* section_type == 0: byte_code = malloc(section_len) and the loop that fills it
ReadByteCode(h, g) ==
  IF Eaten(h.cursor, h.len) < h.len
  THEN ReaderPanics("binary incomplete", "byte_code", BinRange(h.cursor, Eaten(h.cursor, h.len), g), mem)
  ELSE Reading("sections", "", "byte_code", h.cursor + Eaten(h.cursor, h.len), loaded_labels,
               BinRange(h.cursor, Eaten(h.cursor, h.len), g), mem)
ByteCodeSection ==
  \E g \in Garbage :
    /\ AtSection /\ Section(g).ok /\ Section(g).type = 0
    /\ ReadByteCode(Section(g), g)

\* section_type == 1.  init_vm: the check against MEMORY_SIZE and the loop that
\* fills mem from address 0; parse_binary: mem = malloc(mem_len) and the loop

ArenaWith(bs) == [i \in 1..MEMORY_SIZE |-> IF i <= Len(bs) THEN bs[i] ELSE mem[i]]
ReadInitialMemory(h, g) ==
  IF reader = "vm" /\ h.len >= MEMORY_SIZE
  THEN ReaderPanics("initial memory too big", "initial_memory", byte_code, mem)
  ELSE IF Eaten(h.cursor, h.len) < h.len
  THEN ReaderPanics("binary incomplete", "initial_memory", byte_code,
                    IF reader = "vm" THEN ArenaWith(BinRange(h.cursor, Eaten(h.cursor, h.len), g))
                    ELSE BinRange(h.cursor, Eaten(h.cursor, h.len), g))
  ELSE Reading("sections", "", "initial_memory", h.cursor + Eaten(h.cursor, h.len),
               loaded_labels, byte_code,
               IF reader = "vm" THEN ArenaWith(BinRange(h.cursor, Eaten(h.cursor, h.len), g))
               ELSE BinRange(h.cursor, Eaten(h.cursor, h.len), g))
InitialMemorySection ==
  \E g \in Garbage :
    /\ AtSection /\ Section(g).ok /\ Section(g).type = 1
    /\ ReadInitialMemory(Section(g), g)

\* section_type == 3: the loop over the entries, from cursor c with n entries to
\* go.  An entry is pos, len and the len bytes of the label, of which the reader
\* keeps the address bin + cursor; cursor += len is not checked against bin_len.
\* An int that overflows is undefined: the sum wraps, or the host ends the process
LabelEntry(pos, len, g) ==
  [pos |-> IntOf(pos.val), len |-> IntOf(len.val),
   label |-> BinRange(len.cursor, IntOf(len.val), g)]
RECURSIVE ReadEntries(_, _, _, _, _)
ReadEntry(pos, len, n, acc, overflow, g) ==
  IF ~pos.ok \/ ~len.ok
  THEN [ok |-> FALSE, overflow |-> overflow, cursor |-> 0, labels |-> acc]
  ELSE ReadEntries(IntOf((len.cursor + IntOf(len.val)) % IntMod), n - 1,
                   Append(acc, LabelEntry(pos, len, g)),
                   overflow \/ len.cursor + IntOf(len.val) \notin IntRange, g)
ReadEntries(c, n, acc, overflow, g) ==
  IF n <= 0 THEN [ok |-> TRUE, overflow |-> overflow, cursor |-> c, labels |-> acc]
  ELSE ReadEntry(EAT_WORD(c, g), EAT_WORD(c + 8, g), n, acc, overflow, g)
ReadDebugInfo(count, entries) ==
  \/ /\ ~count.ok \/ ~entries.ok
     /\ ReaderPanics("binary incomplete", "debug_info", byte_code, mem)
  \/ /\ count.ok /\ entries.ok
     /\ Reading("sections", "", "debug_info", entries.cursor, entries.labels, byte_code, mem)
  \/ /\ count.ok /\ entries.overflow
     /\ Reading("killed", "", "debug_info", bin_cursor, loaded_labels, byte_code, mem)
DebugInfoSection ==
  \E g \in Garbage :
    /\ AtSection /\ Section(g).ok /\ Section(g).type = 3
    /\ ReadDebugInfo(EAT_WORD(Section(g).cursor, g),
                     ReadEntries(Section(g).cursor + 8,
                                 IntOf(EAT_WORD(Section(g).cursor, g).val), <<>>, FALSE, g))

\* any other section_type: cursor += section_len, not checked against bin_len
SkipSection(h) ==
  IF h.cursor + h.len \in IntRange
  THEN Reading("sections", "", "skip", h.cursor + h.len, loaded_labels, byte_code, mem)
  ELSE \/ Reading("killed", "", "skip", bin_cursor, loaded_labels, byte_code, mem)
       \/ Reading("sections", "", "skip", IntOf((h.cursor + h.len) % IntMod), loaded_labels,
                  byte_code, mem)
OtherSection ==
  \E g \in Garbage :
    /\ AtSection /\ Section(g).ok /\ Section(g).type \notin {0, 1, 3}
    /\ SkipSection(Section(g))

\* a cursor before the start of bin: the read of the section header is outside
\* the buffer, and the host may end the process
ReadFault ==
  /\ AtSection /\ bin_cursor < 0
  /\ Reading("killed", "", "fault", bin_cursor, loaded_labels, byte_code, mem)

\* the loop ends and the reader returns; main of the interpreter calls run
Loaded ==
  /\ load_state = "sections" /\ bin_cursor >= bin_len
  /\ load_state' = "loaded" /\ load_step' = "loaded"
  /\ state' = IF reader = "vm" THEN "running" ELSE state
  /\ UNCHANGED <<bin, reader, bin_cursor, loaded_labels, load_message, dump_cursor,
                 dump_line, byte_code, mem, reg, syscall_handlers, asm_vars>>
  /\ VmUnread

------------------------------------------------------------------------------
\* dump_binary (src/disassemble.c): one line for each instruction of byte_code.
\* A step is one iteration of its loop.

\* the cases of the switch: the opcode, the command printed, and what the case
\* eats and prints: "" nothing, "word" EAT_WORD, "byte" EAT_BYTE, "regs2" EAT_REGS
\* and both names, "regs1" EAT_REGS and reg1, "reg_word" EAT_REGS, reg1 and
\* EAT_WORD, "reg_byte" EAT_REGS, reg1 and EAT_BYTE
Cases ==
  <<
    [opcode |-> 0, cmd |-> <<"h", "a", "l", "t">>, format |-> ""],  \* case 0x00
    [opcode |-> 224, cmd |-> <<"p", "a", "n", "i", "c">>, format |-> ""],  \* case 0xe0
    [opcode |-> 225, cmd |-> <<"t", "r", "y", "s", "t", "a", "r", "t">>, format |-> "word"],  \* case 0xe1
    [opcode |-> 226, cmd |-> <<"t", "r", "y", "e", "n", "d">>, format |-> ""],  \* case 0xe2
    [opcode |-> 208, cmd |-> <<"m", "o", "v", "e">>, format |-> "regs2"],  \* case 0xd0
    [opcode |-> 209, cmd |-> <<"m", "o", "v", "e", "i">>, format |-> "reg_word"],  \* case 0xd1
    [opcode |-> 210, cmd |-> <<"m", "o", "v", "e", "i", "b">>, format |-> "reg_byte"],  \* case 0xd2
    [opcode |-> 211, cmd |-> <<"l", "o", "a", "d">>, format |-> "regs2"],  \* case 0xd3
    [opcode |-> 212, cmd |-> <<"l", "o", "a", "d", "b">>, format |-> "regs2"],  \* case 0xd4
    [opcode |-> 213, cmd |-> <<"s", "t", "o", "r", "e">>, format |-> "regs2"],  \* case 0xd5
    [opcode |-> 214, cmd |-> <<"s", "t", "o", "r", "e", "b">>, format |-> "regs2"],  \* case 0xd6
    [opcode |-> 215, cmd |-> <<"p", "u", "s", "h">>, format |-> "regs1"],  \* case 0xd7
    [opcode |-> 216, cmd |-> <<"p", "o", "p">>, format |-> "regs1"],  \* case 0xd8
    [opcode |-> 240, cmd |-> <<"j", "u", "m", "p">>, format |-> "word"],  \* case 0xf0
    [opcode |-> 241, cmd |-> <<"c", "j", "u", "m", "p">>, format |-> "word"],  \* case 0xf1
    [opcode |-> 242, cmd |-> <<"c", "a", "l", "l">>, format |-> "word"],  \* case 0xf2
    [opcode |-> 243, cmd |-> <<"r", "e", "t">>, format |-> ""],  \* case 0xf3
    [opcode |-> 244, cmd |-> <<"s", "y", "s", "c", "a", "l", "l">>, format |-> "byte"],  \* case 0xf4
    [opcode |-> 192, cmd |-> <<"c", "m", "p">>, format |-> "regs2"],  \* case 0xc0
    [opcode |-> 193, cmd |-> <<"i", "s", "e", "q", "u", "a", "l">>, format |-> ""],  \* case 0xc1
    [opcode |-> 194, cmd |-> <<"i", "s", "l", "e", "s", "s">>, format |-> ""],  \* case 0xc2
    [opcode |-> 195, cmd |-> <<"i", "s", "g", "r", "e", "a", "t", "e", "r">>, format |-> ""],  \* case 0xc3
    [opcode |-> 196, cmd |-> <<"i", "s", "l", "e", "s", "s", "e", "q", "u", "a", "l">>, format |-> ""],  \* case 0xc4
    [opcode |-> 197, cmd |-> <<"i", "s", "g", "r", "e", "a", "t", "e", "r", "e", "q", "u", "a", "l">>, format |-> ""],  \* case 0xc5
    [opcode |-> 198, cmd |-> <<"i", "s", "n", "o", "t", "e", "q", "u", "a", "l">>, format |-> ""],  \* case 0xc6
    [opcode |-> 199, cmd |-> <<"f", "c", "m", "p">>, format |-> "regs2"],  \* case 0xc7
    [opcode |-> 200, cmd |-> <<"i", "s", "e", "q", "u", "a", "l">>, format |-> ""],  \* case 0xc8
    [opcode |-> 201, cmd |-> <<"i", "s", "l", "e", "s", "s">>, format |-> ""],  \* case 0xc9
    [opcode |-> 202, cmd |-> <<"i", "s", "g", "r", "e", "a", "t", "e", "r">>, format |-> ""],  \* case 0xca
    [opcode |-> 203, cmd |-> <<"i", "s", "l", "e", "s", "s", "e", "q", "u", "a", "l">>, format |-> ""],  \* case 0xcb
    [opcode |-> 204, cmd |-> <<"i", "s", "g", "r", "e", "a", "t", "e", "r", "e", "q", "u", "a", "l">>, format |-> ""],  \* case 0xcc
    [opcode |-> 205, cmd |-> <<"i", "s", "n", "o", "t", "e", "q", "u", "a", "l">>, format |-> ""],  \* case 0xcd
    [opcode |-> 206, cmd |-> <<"i", "n", "t", "t", "o", "f", "l", "o", "a", "t">>, format |-> "regs1"],  \* case 0xce
    [opcode |-> 207, cmd |-> <<"f", "l", "o", "a", "t", "t", "o", "i", "n", "t">>, format |-> "regs1"],  \* case 0xcf
    [opcode |-> 160, cmd |-> <<"a", "d", "d">>, format |-> "regs2"],  \* case 0xa0
    [opcode |-> 161, cmd |-> <<"s", "u", "b">>, format |-> "regs2"],  \* case 0xa1
    [opcode |-> 162, cmd |-> <<"m", "u", "l">>, format |-> "regs2"],  \* case 0xa2
    [opcode |-> 163, cmd |-> <<"d", "i", "v">>, format |-> "regs2"],  \* case 0xa3
    [opcode |-> 164, cmd |-> <<"r", "e", "m">>, format |-> "regs2"],  \* case 0xa4
    [opcode |-> 165, cmd |-> <<"f", "a", "d", "d">>, format |-> "regs2"],  \* case 0xa5
    [opcode |-> 166, cmd |-> <<"f", "s", "u", "b">>, format |-> "regs2"],  \* case 0xa6
    [opcode |-> 167, cmd |-> <<"f", "m", "u", "l">>, format |-> "regs2"],  \* case 0xa7
    [opcode |-> 168, cmd |-> <<"f", "d", "i", "v">>, format |-> "regs2"],  \* case 0xa8
    [opcode |-> 176, cmd |-> <<"a", "n", "d">>, format |-> "regs2"],  \* case 0xb0
    [opcode |-> 177, cmd |-> <<"o", "r">>, format |-> "regs2"],  \* case 0xb1
    [opcode |-> 178, cmd |-> <<"x", "o", "r">>, format |-> "regs2"],  \* case 0xb2
    [opcode |-> 179, cmd |-> <<"n", "o", "t">>, format |-> "regs1"]  \* case 0xb3
  >>
CaseOf(opc) ==
  IF \E i \in 1..Len(Cases) : Cases[i].opcode = opc
  THEN CHOOSE i \in 1..Len(Cases) : Cases[i].opcode = opc
  ELSE 0
EatsRegs(format) == format \in {"regs2", "regs1", "reg_word", "reg_byte"}
EatsWord(format) == format \in {"word", "reg_word"}
EatsByte(format) == format \in {"byte", "reg_byte"}
\* the bytes a case eats after the opcode
Eats(format) ==
  (IF EatsRegs(format) THEN 1 ELSE 0) + (IF EatsWord(format) THEN 8 ELSE 0)
    + (IF EatsByte(format) THEN 1 ELSE 0)

\* int byte_code_len, char* regs[8], char cmd[CMD_LEN]
byte_code_len == Len(byte_code)
regs == <<<<"s", "p">>, <<"s", "t">>, <<"a">>, <<"b">>, <<"c">>, <<"d">>, <<"e">>, <<"f">>>>
CMD_LEN == 20
\* regs[i]: an index from 8 on reads what lies behind the table as a char*
EAT_REGS(i) == IF i < 8 THEN regs[i + 1] ELSE <<"?">>
\* the number of characters %lx, %ld and %d print
RECURSIVE Digits(_, _)
Digits(n, base) == IF n < base THEN 1 ELSE 1 + Digits(n \div base, base)
Printed(case, value) ==
  IF case.cmd = <<"m", "o", "v", "e", "i">>
  THEN (IF IsNegative(value) THEN 1 + Digits(WordMod - value, 10) ELSE Digits(value, 10))
  ELSE IF EatsWord(case.format) THEN Digits(value, 16) ELSE Digits(value, 10)

\* the line of the instruction at cursor c, whose case has its operands in
\* byte_code: where it starts, the command, the names, the indices into regs, the
\* operand after the names, and the length of the text sprintf writes to cmd
Operand(case, after) ==
  IF EatsWord(case.format) THEN LEWord(SubSeq(byte_code, after + 1, after + 8))
  ELSE IF EatsByte(case.format) THEN byte_code[after + 1] ELSE 0
Line(c, case, b, value) ==
  [at |-> c, cmd |-> case.cmd, operand |-> value, len |-> 1 + Eats(case.format),
   reg1 |-> IF EatsRegs(case.format) THEN EAT_REGS(b % 16) ELSE <<>>,
   reg2 |-> IF case.format = "regs2" THEN EAT_REGS(b \div 16) ELSE <<>>,
   indices |-> IF EatsRegs(case.format) THEN {b % 16, b \div 16} ELSE {},
   text |-> Len(case.cmd)
            + (IF EatsRegs(case.format) THEN 1 + Len(EAT_REGS(b % 16)) ELSE 0)
            + (IF case.format = "regs2" THEN 1 + Len(EAT_REGS(b \div 16)) ELSE 0)
            + (IF EatsWord(case.format) \/ EatsByte(case.format)
               THEN 1 + Printed(case, value) ELSE 0)]
LineAt(c, case) ==
  Line(c, case, IF EatsRegs(case.format) THEN byte_code[c + 2] ELSE 0,
       Operand(case, c + 1 + (IF EatsRegs(case.format) THEN 1 ELSE 0)))

\* the instruction at the cursor: the row of its case (0: default), and whether
\* the operands of the case are in byte_code
Dumping == reader = "dis" /\ load_state = "loaded" /\ dump_cursor < byte_code_len
CaseAtCursor == CaseOf(byte_code[dump_cursor + 1])
Complete == dump_cursor + 1 + Eats(Cases[CaseAtCursor].format) <= byte_code_len
\* the line reads regs behind its eight entries, or does not fit into cmd
LineFault(line) == ~(line.indices \subseteq 0..7) \/ line.text >= CMD_LEN
Dump(st, msg, step, c, line) ==
  /\ load_state' = st /\ load_message' = msg /\ load_step' = step
  /\ dump_cursor' = c /\ dump_line' = line
  /\ UNCHANGED <<bin, reader, bin_cursor, loaded_labels, vars, asm_vars>>

\* an iteration that prints its line
DumpInstruction ==
  /\ Dumping /\ CaseAtCursor # 0 /\ Complete
  /\ Dump("loaded", "", "line", dump_cursor + 1 + Eats(Cases[CaseAtCursor].format),
          LineAt(dump_cursor, Cases[CaseAtCursor]))
\* the host ends the process in an iteration that leaves regs or cmd
DumpFault ==
  /\ Dumping /\ CaseAtCursor # 0 /\ Complete
  /\ LineFault(LineAt(dump_cursor, Cases[CaseAtCursor]))
  /\ Dump("killed", "", "fault", dump_cursor, dump_line)
\* default: panic(1, "invalid instruction %dx", ...), and the panic of EAT_REGS,
\* EAT_WORD and EAT_BYTE at the end of byte_code
DumpPanic ==
  /\ Dumping
  /\ IF CaseAtCursor = 0
     THEN Dump("failed", "invalid instruction", "panic", dump_cursor, dump_line)
     ELSE /\ ~Complete
          /\ Dump("failed", "binary incomplete", "panic", dump_cursor, dump_line)
\* the loop ends; the memory is printed
DumpMemory ==
  /\ reader = "dis" /\ load_state = "loaded" /\ dump_cursor >= byte_code_len
  /\ Dump("dumped", "", "memory", dump_cursor, dump_line)

------------------------------------------------------------------------------
\* The tool chain: a source is assembled and the file is read by the interpreter,
\* which runs it, or by the disassembler, which lists it; or a reader is given a
\* file that the assembler did not write.

\* sections: the type, a length field, the bytes that follow
Sect(type, declared, payload) == <<type>> \o WordBytes(declared) \o payload
Entry(pos, len, name) == WordBytes(pos) \o WordBytes(len) \o name
Soil == StrBytes(Magic)
CodeSect == Sect(0, 3, <<208, 50, 243>>)
MemSect == Sect(1, 2, <<104, 105>>)
InfoSect == Sect(3, 42, WordBytes(2) \o Entry(0, 1, <<97>>) \o Entry(2, 2, <<98, 99>>))
\* sections of an unknown type
Unknown == {Sect(2, 0, <<>>), Sect(7, 3, <<1, 0, 3>>)}
MaybeUnknown == {<<>>} \cup Unknown
\* a file with its three sections, and unknown sections among them
WellFormed ==
  {Soil \o a \o CodeSect \o b \o MemSect \o c \o InfoSect \o d :
     a \in MaybeUnknown, b \in MaybeUnknown, c \in MaybeUnknown, d \in MaybeUnknown}
\* the sections in another order, twice, or missing
Reordered ==
  {Soil, Soil \o MemSect \o CodeSect, Soil \o InfoSect \o CodeSect \o CodeSect,
   Soil \o Sect(1, MEMORY_SIZE - 1, [i \in 1..(MEMORY_SIZE - 1) |-> i]),
   Soil \o Sect(0, 0, <<>>) \o Sect(1, 0, <<>>) \o Sect(3, 8, WordBytes(0))}
\* every prefix of a file
Prefixes(file) == {SubSeq(file, 1, n) : n \in 0..Len(file)}
Truncated ==
  Prefixes(Soil \o CodeSect \o Sect(7, 3, <<1, 0, 3>>) \o MemSect \o InfoSect)
    \cup {Soil \o CodeSect \o Sect(7, 3, <<1>>),
          Soil \o Sect(2, 9, <<>>),
          Soil \o Sect(3, 25, WordBytes(1) \o Entry(0, 5, <<97>>)),
          Soil \o Sect(3, 8, WordBytes(2)),
          Soil \o Sect(3, 24, WordBytes(3) \o Entry(0, 0, <<>>))}
\* files with other magic bytes
Foreign == {<<115, 111, 117, 108>>, <<115, 111>> \o CodeSect, <<0>> \o Soil}
\* length fields that do not fit the arena or the int they are converted to
Oversized ==
  {Soil \o Sect(1, n, [i \in 1..MEMORY_SIZE |-> i]) : n \in {MEMORY_SIZE, MEMORY_SIZE + 1}}
    \cup {Soil \o Sect(t, n, <<5, 6, 7>>) \o CodeSect :
            t \in {0, 1, 2}, n \in {IntMod, IntMod + 3, IntMod \div 2, WordMod - 1}}
    \cup {Soil \o CodeSect \o Sect(2, WordMod - 9, <<>>),
          Soil \o CodeSect \o Sect(2, WordMod - 10, <<>>),
          Soil \o CodeSect \o Sect(2, WordMod - 30, <<>>),
          Soil \o Sect(3, 24, WordBytes(1) \o Entry(0, WordMod - 16, <<>>)),
          Soil \o Sect(3, 24, WordBytes(1) \o Entry(0, IntMod \div 2 - 1, <<>>)),
          Soil \o Sect(3, 8, WordBytes(WordMod - 1)) \o CodeSect}
\* byte code with operand bytes that name registers 8..15 and with opcodes that
\* the readers do not know
Listings ==
  {Soil \o Sect(0, Len(code), code) :
     code \in {<<208, 137>>, <<215, 8>>, <<209, 2, 255, 255, 255, 255, 255, 255, 255, 255>>,
               <<1>>, <<208>>, <<240, 0, 0>>, <<244, 1, 192, 33, 193>>}}
Containers == WellFormed \cup Reordered \cup Truncated \cup Foreign \cup Oversized \cup Listings

LoadInit ==
  \/ AsmInit
  \/ /\ VmIdle /\ AsmIdle
     /\ bin \in Containers
     /\ reader = "" /\ bin_cursor = 0 /\ loaded_labels = <<>>
     /\ load_state = "idle" /\ load_message = "" /\ load_step = ""
     /\ dump_cursor = 0 /\ dump_line = <<>>

\* run, up to the end of the first run_single
RunFirst == opcode = -1 /\ Next

LoadNext ==
  \/ AsmNext
  \/ StartLoad \/ CheckMagic \/ SectionHeaderPanic \/ ByteCodeSection
  \/ InitialMemorySection \/ DebugInfoSection \/ OtherSection \/ ReadFault \/ Loaded
  \/ RunFirst
  \/ DumpInstruction \/ DumpFault \/ DumpPanic \/ DumpMemory

LoadSpec == LoadInit /\ [][LoadNext]_all_vars

------------------------------------------------------------------------------
\* Claims about the readers and the tool chain, under LoadSpec

\* the step is an iteration of the reader at a section of this type, read inside bin
ReadsSection(types) ==
  /\ AtSection /\ bin_cursor >= 0 /\ Section(0).ok /\ Section(0).type \in types
  /\ load_step' \in {"byte_code", "initial_memory", "debug_info", "skip"}
\* the length field of the section at the cursor, a Word, and the bytes of the
\* file after the field
Declared == Section(0).declared
Payload(n) == SubSeq(bin, bin_cursor + 10, bin_cursor + 9 + n)
EntryRegisters == [i \in 0..7 |-> IF i = SP THEN MEMORY_SIZE ELSE 0]

C24_InitialMemoryLoadedInt ==
  [][/\ (reader = "vm" /\ load_state = "sections" /\ load_state' = "loaded")
          => (reg' = EntryRegisters /\ ip' = 0)
     /\ (reader = "vm" /\ ReadsSection({1}) /\ Declared < IntMod \div 2)
          => IF Declared >= MEMORY_SIZE
             THEN load_state' = "failed" /\ load_message' = "initial memory too big"
             ELSE load_state' = "sections"
                    => \A i \in 0..(Declared - 1) : mem'[i + 1] = Payload(Declared)[i + 1]]_all_vars

\* the entries of a debug info section: there are n more entries to read at
\* offset c of the file, and none of them extends past the end of the file
RECURSIVE EntriesFit(_, _)
EntriesFit(c, n) ==
  IF n = 0 THEN TRUE
  ELSE IF c + 16 > Len(bin) THEN FALSE
  ELSE IF c + 16 + LEWord(SubSeq(bin, c + 9, c + 16)) > Len(bin) THEN FALSE
  ELSE EntriesFit(c + 16 + LEWord(SubSeq(bin, c + 9, c + 16)), n - 1)
\* the section at the cursor extends past the end of the file: its payload, or the
\* number of its entries, or an entry
Truncates ==
  \/ bin_cursor + 9 + Declared > Len(bin)
  \/ /\ Section(0).type = 3
     /\ \/ bin_cursor + 17 > Len(bin)
        \/ ~EntriesFit(bin_cursor + 17, LEWord(SubSeq(bin, bin_cursor + 10, bin_cursor + 17)))

\* C22: a reader that meets a section whose length field, or the length of a
\* record in it (byte code, initial memory, the name of a debug info label, a
\* section of another type), extends past the end of the file ends with a panic;
\* the load does not complete.
C22_TruncationTraps ==
  [][(ReadsSection(0..255) /\ Truncates) => load_state' = "failed"]_all_vars

\* the same, of the byte code and the initial memory with a length field below
\* the largest int
C22_TruncatedPayloadTraps ==
  [][(ReadsSection({0, 1}) /\ Truncates /\ Declared < IntMod \div 2)
       => load_state' = "failed"]_all_vars

\* C23: a reader skips a section whose type is not 0, 1 or 3 by exactly its
\* length: the step leaves byte_code, mem and the labels as they are and moves the
\* cursor from the section header to the byte that follows the payload, as if the
\* section were not in the file.
C23_UnknownSectionSkipped ==
  [][(AtSection /\ bin_cursor >= 0 /\ Section(0).ok /\ Section(0).type \notin {0, 1, 3})
       => /\ load_step' = "skip" /\ load_state' = "sections"
          /\ bin_cursor' = bin_cursor + 9 + Declared
          /\ UNCHANGED <<byte_code, mem, loaded_labels>>]_all_vars

\* the same, of the sections that lie inside the file
C23_UnknownSectionInsideSkipped ==
  [][(AtSection /\ bin_cursor >= 0 /\ Section(0).ok /\ Section(0).type \notin {0, 1, 3}
        /\ bin_cursor + 9 + Declared <= Len(bin))
       => /\ load_step' = "skip" /\ load_state' = "sections"
          /\ bin_cursor' = bin_cursor + 9 + Declared
          /\ UNCHANGED <<byte_code, mem, loaded_labels>>]_all_vars

\* the file the assembler wrote, read by its length fields: the payload of the
\* byte code section, of the initial memory section and of the debug info section
FieldAt(pos) == LEWord(OutputWordAt(outfile, pos))
CodePayload == SubSeq(outfile, ByteCodeStart + 1, ByteCodeStart + FieldAt(Len(Magic) + 1))
DataStart == ByteCodeStart + Len(CodePayload) + 9
DataPayload == SubSeq(outfile, DataStart + 1, DataStart + FieldAt(DataStart - 8))
InfoStart == DataStart + Len(DataPayload) + 9
InfoPayload == SubSeq(outfile, InfoStart + 1, InfoStart + FieldAt(InfoStart - 8))
\* the file is the magic bytes and the sections 0, 1 and 3 in this order, each
\* length field the number of bytes of its payload
ThreeSections ==
  /\ outfile = Soil \o Sect(0, Len(CodePayload), CodePayload)
                 \o Sect(1, Len(DataPayload), DataPayload)
                 \o Sect(3, Len(InfoPayload), InfoPayload)
  /\ DataStart = pointer_to_memory_section_len + 8
  /\ Len(InfoPayload)
       = 8 + LabelsSize(SubSeq(InfoPayload, 9, Len(InfoPayload)), FieldAt(InfoStart))
\* the interpreter has read the file the assembler wrote, and what it holds then
ReadBack == asm_state = "done" /\ reader = "vm" /\ load_state = "loaded"
SameAsWritten ==
  /\ byte_code = CodePayload
  /\ SubSeq(mem, 1, Len(DataPayload)) = DataPayload
  /\ Len(loaded_labels) = Len(labels)
  /\ \A i \in 1..Len(labels) :
       /\ loaded_labels[i].pos = labels[i].pos
       /\ loaded_labels[i].label = StrBytes(labels[i].label)

\* C21 as stated: the file of every successful assembly is the magic bytes and the
\* sections 0, 1, 3 in this order with length fields that count their payload, and
\* init_vm reads it to the end and then holds the byte code, the initial memory at
\* the start of the arena and the labels of the byte code as they were emitted.
C21_RoundTrip ==
  asm_state = "done"
    => /\ ThreeSections
       /\ reader = "vm" => load_state \notin {"failed", "killed"}
       /\ ReadBack => SameAsWritten

\* What does hold of the round trip: the file of every successful assembly is
\* built as stated, and init_vm reads it back as it was written when the initial
\* memory is shorter than MEMORY_SIZE and the file is shorter than the largest int
\* (main hands the length of the file to init_vm as an int).
C21_RoundTripWithinLimits ==
  asm_state = "done"
    => /\ ThreeSections
       /\ (Len(DataPayload) < MEMORY_SIZE /\ Len(outfile) < IntMod \div 2)
            => /\ reader = "vm" => load_state \notin {"failed", "killed"}
               /\ ReadBack => SameAsWritten

\* the interpreter has read a file with byte code, initial memory and a label
C21_Witness ==
  /\ ReadBack
  /\ CodePayload # <<>> /\ DataPayload # <<>> /\ loaded_labels # <<>>
  /\ Len(DataPayload) < MEMORY_SIZE /\ Len(outfile) < IntMod \div 2


------------------------------------------------------------------------------
\* The layout of an instruction in the three programs, compared on the first
\* instruction of a source: the assembler emits it at offset 0 of the byte code,
\* where the interpreter starts and the disassembler lists its first line.

\* the first command of the source, after the labels in front of it
StatementAt(p) ==
  LET q == consume_whitespace(p)
      n == parse_name(q)
      c == consume_prefix(n.p, ":")
  IN [at_end |-> is_at_end(q), name |-> n, is_label |-> c.ok, p |-> c.p]
RECURSIVE FirstCommandAt(_)
FirstCommandAt(p) ==
  LET s == StatementAt(p)
  IN IF s.at_end \/ ~s.name.ok THEN [found |-> FALSE, row |-> 0, p |-> p]
     ELSE IF s.is_label THEN FirstCommandAt(s.p)
     ELSE [found |-> MnemonicOf(s.name.val) # 0, row |-> MnemonicOf(s.name.val), p |-> s.p]
FirstCommand ==
  FirstCommandAt([cursor |-> 1, current |-> IF recipe = <<>> THEN NUL ELSE recipe[1]])
FirstOpcode == Mnemonics[FirstCommand.row].opcode
FirstShape == Mnemonics[FirstCommand.row].shape
\* the registers written in the source
FirstReg == parse_reg(FirstCommand.p)
SecondReg == parse_reg(FirstReg.p)
HasFirstReg == FirstShape \in {"reg", "reg_reg", "reg_byte", "reg_word"}
HasSecondReg == FirstShape = "reg_reg"

\* the bytes dump_binary consumes for an instruction
DumpedLen(opc) == 1 + Eats(Cases[CaseOf(opc)].format)
\* an iteration of the first loop of the assembler that emits the instruction of
\* a mnemonic the interpreter implements
EmitsInstruction ==
  /\ asm_state = "code" /\ asm_state' = "code" /\ output' # output
  /\ Mnemonics[MnemonicOf(Statement.name.val)].opcode \in Implemented
EmittedLen == Len(output') - Len(output)

\* the file of a source whose first command is an instruction the interpreter
\* implements has been assembled
Assembled == asm_state = "done" /\ FirstCommand.found /\ FirstOpcode \in Implemented
\* the first run_single of the interpreter on that file, and the first line of
\* the disassembler
FirstRun == Assembled /\ reader = "vm" /\ opcode = -1 /\ opcode' # -1
FirstLine ==
  Assembled /\ reader = "dis" /\ load_state = "loaded" /\ dump_cursor = 0
    /\ load_step' = "line"
\* the step goes on with the instruction behind this one
FallsThrough ==
  /\ state' = "running"
  /\ opcode' \notin {240, 242, 243}
  /\ ~(opcode' = 241 /\ reg[ST] # 0)
\* the step goes on at the word behind the opcode
Jumps == state' = "running" /\ (opcode' \in {240, 242} \/ (opcode' = 241 /\ reg[ST] # 0))

\* C27: for every mnemonic the interpreter implements the three programs agree on
\* the layout of the instruction: the assembler emits the opcode and as many bytes
\* as the disassembler consumes for it, the register byte being first + 16 *
\* second of the registers written in the source; a step of the interpreter that
\* falls through advances ip by the same number (9 for a cjump not taken), a
\* jump or call continues at the word in the 8 bytes at ip + 1, and the registers
\* it decodes from the low and the high nibble are the first and the second
\* register of the source; the disassembler names the same registers.
C27_LayoutAgrees ==
  [][/\ EmitsInstruction
          => /\ EmittedLen = DumpedLen(Mnemonics[MnemonicOf(Statement.name.val)].opcode)
             /\ output'[Len(output) + 1] = Mnemonics[MnemonicOf(Statement.name.val)].opcode
     /\ (Assembled /\ load_state = "loaded")
          => /\ DumpedLen(FirstOpcode) <= Len(byte_code)
             /\ byte_code[1] = FirstOpcode
             /\ HasFirstReg => byte_code[2] % 16 = FirstReg.val
             /\ HasSecondReg => byte_code[2] \div 16 = SecondReg.val
     /\ FirstRun
          => /\ opcode' = FirstOpcode
             /\ FallsThrough => ip' = ip + DumpedLen(FirstOpcode)
             /\ (FallsThrough /\ opcode' = 241) => ip' = ip + 9
             /\ Jumps => /\ DumpedLen(FirstOpcode) = 9
                         /\ ip' = LEWord(SubSeq(byte_code, ip + 2, ip + 9))
             /\ (HasFirstReg /\ operand' >= 0) => R1(operand') = FirstReg.val
             /\ (HasSecondReg /\ operand' >= 0) => R2(operand') = SecondReg.val
     /\ FirstLine
          => /\ dump_cursor' = dump_cursor + DumpedLen(FirstOpcode)
             /\ HasFirstReg => dump_line'.reg1 = regs[FirstReg.val + 1]
             /\ HasSecondReg => dump_line'.reg2 = regs[SecondReg.val + 1]
             /\ ~HasFirstReg => dump_line'.reg1 = <<>>
             /\ ~HasSecondReg => dump_line'.reg2 = <<>>]_all_vars

\* the interpreter has run the two bytes of a move c d and stands behind it
C27_Witness ==
  /\ Assembled /\ reader = "vm" /\ state = "running"
  /\ opcode = 208 /\ operand = REGC + 16 * REGD /\ ip = 2
  /\ FirstReg.val = REGC /\ SecondReg.val = REGD

------------------------------------------------------------------------------
\* C28: whatever the byte code, a dispatch step of the interpreter reads and
\* writes only the slots 0..7 of reg, and a line of the disassembler takes its
\* names only from the entries 0..7 of regs, also when a nibble of the register
\* byte is in 8..15.
C28_RegisterIndexInRange ==
  [][/\ opcode' # opcode => InRegs(reg_touched')
     /\ load_step' = "line" => InRegs(dump_line'.indices)]_all_vars

\* What does hold: the indices are the two nibbles of the register byte, so they
\* stay below 16, and below 8 for the register bytes the assembler emits.
C28_RegisterIndexIsNibble ==
  [][/\ opcode' # opcode => reg_touched' \subseteq 0..15
     /\ load_step' = "line" => dump_line'.indices \subseteq 0..15
     /\ asm_state = "done"
          => /\ opcode' # opcode => InRegs(reg_touched')
             /\ load_step' = "line" => InRegs(dump_line'.indices)]_all_vars

====
